---------------------------- MODULE Spec2Model ----------------------------
(***************************************************************************)
(* Model of the adaptive clustering engine of file-triage                  *)
(* (src/src/index.ts, lines 371-1176): clusterFiles with its               *)
(* splitLargeCluster post-processing, analyzeClusteringResults,            *)
(* calculateClusteringScore, adjustClusteringParameters and the            *)
(* autoClusterFiles loop.                                                  *)
(* Also modelled: the interactive triage session (interactive.ts,          *)
(* operations.ts, splitCluster), the embedding cache (cache.ts) and        *)
(* EmbeddingService.getFileEmbeddings.                                     *)
(*                                                                         *)
(* Numbers.  JavaScript numbers are modelled as exact rationals            *)
(* [n |-> numerator, d |-> denominator > 0]; d = 0 stands for NaN, whose   *)
(* comparisons are all false and which absorbs every sum.  Percentages and *)
(* similarity thresholds are kept in hundredths.                           *)
(*                                                                         *)
(* Files.  A FileItem is its index in `files`; files[i] is its embedding.  *)
(***************************************************************************)
EXTENDS Integers, Sequences, FiniteSets, TLC

(***************************************************************************)
(* Bounds of the model.                                                    *)
(***************************************************************************)
\* Largest file list of the clusterFiles specification (SpecCluster).
MaxFiles == 4

\* Embeddings a file can have: one-dimensional, so that every norm is an
\* integer.  <<0>> is the zero vector (cosine similarity NaN or 0), <<1>> and
\* <<-1>> are opposite (cosine similarity -1).
Embeddings == {<<1>>, <<-1>>, <<0>>}

\* Labels the density primitive gives in SpecCluster: noise or cluster 0.
LabelValues == {-1, 0}

\* Options clusterFiles is called with in SpecCluster.
MinClusterSizes == {1, 2}
MaxClusterSizes == {1, 2, 3}

\* File counts of the autoClusterFiles specification (Spec).
FileCounts == {0, 1, 4, 12}

VARIABLES
  files,          \* the input FileItem[]: files[i] is the embedding of file i
  initialOptions, \* autoClusterFiles: the ClusteringOptions the caller supplied
  autoOptions,    \* maxIterations, targetClusterCount (0: absent), maxClusterSizePercent
  currentOptions, \* autoClusterFiles: the ClusteringOptions in effect
  iteration,      \* autoClusterFiles: the loop counter
  adjustments,    \* autoClusterFiles: the change log
  bestClusters,   \* autoClusterFiles: best partition so far
  bestScore,      \* autoClusterFiles: best score so far
  result,         \* the AutoClusteringResult once returned
  pc,             \* control point
  opts,           \* clusterFiles: its destructured options
  labels,         \* clusterFiles: hdbscan.labels_
  clusters,       \* clusterFiles: the raw clusters, in clusterMap order
  finalClusters,  \* clusterFiles: the post-processed clusters
  nextClusterId,  \* clusterFiles: next free cluster id
  ci,             \* clusterFiles: position of the for-of loop over clusters
  split,          \* splitLargeCluster: its locals while a cluster is being split
  console,        \* the lines the enableVerbose branches have printed
  trace,          \* history: one record per completed iteration
  disk,           \* the file system: disk[p] is the content at path p
  filePath,       \* triage: filePath[f] is the filePath field of FileItem f
  currentClusters, \* triageClusters: the working list of clusters
  currentIndex,   \* triageClusters: position in the working list
  fileIndex,      \* triageCluster: the loop counter i
  fileStatuses,   \* triageCluster: the status of each file of the cluster
  renameTo,       \* renameFile: newPath, between fs.access and fs.rename
  triagePc,       \* triage: control point
  unlinked,       \* history: the files deleteFile has removed
  cache,          \* EmbeddingCache: this.cache, an entry per file name
  fastMode,       \* EmbeddingCache: this.fastMode
  fsFiles,        \* the directory: content, mtime and size of each file
  served,         \* history: what the last cache read returned
  filePaths,      \* getFileEmbeddings: its argument
  embedOutcome,   \* what getFileEmbedding does for each path
  promises,       \* getFileEmbeddings: the promise of each limited task
  completedCount, \* getFileEmbeddings: the progress counter
  spinnerText,    \* the progress the caller's callback last displayed
  completions,    \* history: the task indices in order of completion
  results         \* the promise getFileEmbeddings returned

vars == <<files, initialOptions, autoOptions, currentOptions, iteration, adjustments,
          bestClusters, bestScore, result, pc, opts, labels, clusters,
          finalClusters, nextClusterId, ci, split, console, trace,
          disk, filePath, currentClusters, currentIndex, fileIndex,
          fileStatuses, renameTo, triagePc, unlinked,
          cache, fastMode, fsFiles, served, filePaths, embedOutcome,
          promises, completedCount, spinnerText, completions, results>>

\* The state of the embedding cache and of the directory it describes.
cacheVars == <<cache, fastMode, fsFiles, served>>

\* The state of a getFileEmbeddings call.
embedVars == <<filePaths, embedOutcome, promises, completedCount, spinnerText,
               completions, results>>

serviceVars == <<cacheVars, embedVars>>

\* The state of the interactive triage.
triageVars == <<disk, filePath, currentClusters, currentIndex, fileIndex,
                fileStatuses, renameTo, triagePc, unlinked>>

\* The state clusterFiles leaves alone.
autoVars == <<initialOptions, autoOptions, currentOptions, iteration, adjustments,
              bestClusters, bestScore, result, console, trace, triageVars,
              serviceVars>>

\* The state of the clustering engine.
engineVars == <<files, initialOptions, autoOptions, currentOptions, iteration,
                adjustments, bestClusters, bestScore, result, pc, opts, labels,
                clusters, finalClusters, nextClusterId, ci, split, console, trace>>

(***************************************************************************)
(* Numbers                                                                 *)
(***************************************************************************)
NaN == [n |-> 0, d |-> 0]

IsNaN(x) == x.d = 0

Abs(k) == IF k < 0 THEN -k ELSE k

\* The arithmetic below is written as functions: a function application
\* evaluates its arguments once, which keeps nested arithmetic linear.
Max2[a \in Int, b \in Int] == IF a > b THEN a ELSE b

Min2[a \in Int, b \in Int] == IF a < b THEN a ELSE b

Gcd[a \in Nat, b \in Nat] == IF b = 0 THEN a ELSE Gcd[b, a % b]

\* A JavaScript number: the rational n/d, or NaN when d = 0.
Number == [n : Int, d : Nat]

\* The rational n/d in lowest terms (d > 0), or NaN when d = 0.
Rat[n \in Int, d \in Int] ==
  IF d = 0 THEN NaN
  ELSE LET g == Gcd[Abs(n), Abs(d)]
           s == IF d < 0 THEN -1 ELSE 1
       IN [n |-> s * (n \div g), d |-> s * (d \div g)]

Int2Rat(k) == [n |-> k, d |-> 1]

RAdd[x \in Number, y \in Number] ==
  IF IsNaN(x) \/ IsNaN(y) THEN NaN
  ELSE Rat[x.n * y.d + y.n * x.d, x.d * y.d]

RScale[x \in Number, k \in Int, m \in Int] ==
  IF IsNaN(x) THEN NaN ELSE Rat[x.n * k, x.d * m]

RNeg[x \in Number] == IF IsNaN(x) THEN NaN ELSE [n |-> -x.n, d |-> x.d]

RSub[x \in Number, y \in Number] == RAdd[x, RNeg[y]]

RAbs[x \in Number] == IF IsNaN(x) THEN NaN ELSE [n |-> Abs(x.n), d |-> x.d]

RMul[x \in Number, y \in Number] ==
  IF IsNaN(x) \/ IsNaN(y) THEN NaN ELSE Rat[x.n * y.n, x.d * y.d]

\* Math.max(0, x): NaN stays NaN.
RMax0[x \in Number] ==
  IF IsNaN(x) THEN NaN ELSE IF x.n < 0 THEN Int2Rat(0) ELSE x

\* Math.min(1, x): NaN stays NaN.
RMin1[x \in Number] ==
  IF IsNaN(x) THEN NaN ELSE IF x.n > x.d THEN Int2Rat(1) ELSE x

\* x < y and x > y as JavaScript compares: false when either is NaN.
RLess(x, y) == ~IsNaN(x) /\ ~IsNaN(y) /\ x.n * y.d < y.n * x.d

RGreater(x, y) == RLess(y, x)

REq(x, y) == ~IsNaN(x) /\ ~IsNaN(y) /\ x.n * y.d = y.n * x.d

\* Math.sqrt on the perfect squares the embeddings produce.
Sqrt(n) == CHOOSE r \in 0..n : r * r = n

(***************************************************************************)
(* Vector math                                                             *)
(***************************************************************************)
RECURSIVE DotUpTo(_, _, _)
DotUpTo(a, b, k) ==
  IF k = 0 THEN 0 ELSE DotUpTo(a, b, k - 1) + a[k] * b[k]

\* cosineSimilarity(a, b): 0 on a length mismatch or when b has zero norm;
\* dot / (|a| * |b|) otherwise, which is 0 / 0 = NaN when only a is zero.
cosineSimilarity(a, b) ==
  IF Len(a) # Len(b) THEN Int2Rat(0)
  ELSE LET dotProduct == DotUpTo(a, b, Len(a))
           normA == DotUpTo(a, a, Len(a))
           normB == DotUpTo(b, b, Len(b))
       IN IF normB = 0 THEN Int2Rat(0)
          ELSE Rat[dotProduct, Sqrt(normA) * Sqrt(normB)]

RECURSIVE SumVectors(_, _)
SumVectors(embs, k) ==
  IF k = 1 THEN embs[1]
  ELSE LET s == SumVectors(embs, k - 1)
       IN [i \in 1..Len(embs[1]) |-> s[i] + embs[k][i]]

\* calculateCentroid: the element-wise mean, kept as the sum of the vectors
\* and their number (mean = sum / count); <<>> for no vectors.
calculateCentroid(embs) ==
  IF Len(embs) = 0 THEN [sum |-> <<>>, count |-> 0]
  ELSE [sum |-> SumVectors(embs, Len(embs)), count |-> Len(embs)]

\* cosine similarity of an embedding and a centroid: the positive factor
\* 1 / count of the mean cancels in dot / (|a| * |b|).
CentroidSimilarity(a, centroid) == cosineSimilarity(a, centroid.sum)

\* The locals leastSimilarIndex and minSimilarity.
LeastSoFar == [index : Int, min : Number]

\* One round of the loop: if (similarity < minSimilarity) ...
LessSimilar[prev \in LeastSoFar, k \in Nat, similarity \in Number] ==
  IF RLess(similarity, prev.min)
  THEN [index |-> k, min |-> similarity]
  ELSE prev

\* findLeastSimilarFile: index of the first member whose similarity to
\* newFile is the smallest one below 1; -1 when no similarity is below 1.
RECURSIVE LeastSimilarUpTo(_, _, _)
LeastSimilarUpTo(newFile, existingFiles, k) ==
  IF k = 0 THEN [index |-> -1, min |-> Int2Rat(1)]
  ELSE LessSimilar[LeastSimilarUpTo(newFile, existingFiles, k - 1), k,
                   cosineSimilarity(files[newFile], files[existingFiles[k]])]

findLeastSimilarFile(newFile, existingFiles) ==
  LeastSimilarUpTo(newFile, existingFiles, Len(existingFiles)).index

(***************************************************************************)
(* clusterFiles: grouping by label                                         *)
(***************************************************************************)
Indices(n) == [i \in 1..n |-> i]

Cluster(id, clusterFiles) == [id |-> id, files |-> clusterFiles]

\* The keys of clusterMap in insertion order: each label at its first use.
LabelOrder(ls) ==
  LET firstUses == SelectSeq(Indices(Len(ls)),
                             LAMBDA i : \A j \in 1..(i - 1) : ls[j] # ls[i])
  IN [k \in 1..Len(firstUses) |-> ls[firstUses[k]]]

\* labels.forEach: file index goes to the cluster of labels[index].  A label
\* array shorter than the file list leaves the last files in no cluster.
GroupByLabel(ls) ==
  LET order == LabelOrder(ls)
  IN [k \in 1..Len(order) |->
        Cluster(order[k],
                SelectSeq(Indices(Len(ls)), LAMBDA i : ls[i] = order[k]))]

RECURSIVE MaxId(_, _)
MaxId(cs, k) ==
  IF k = 1 THEN cs[1].id ELSE Max2[MaxId(cs, k - 1), cs[k].id]

\* The comparator of finalClusters.sort: larger clusters first, then by id.
ClusterBefore(a, b) ==
  IF Len(a.files) # Len(b.files) THEN Len(a.files) > Len(b.files)
  ELSE a.id < b.id

\* Array.prototype.sort is stable: the cluster at position a comes before the
\* one at position b when the comparator puts it first, or puts neither
\* first and a < b.
SortedBefore(cs, a, b) ==
  \/ ClusterBefore(cs[a], cs[b])
  \/ ~ClusterBefore(cs[b], cs[a]) /\ a < b

\* finalClusters.sort: rank r is held by the cluster that exactly r - 1
\* clusters come before.
SortClusters(cs) ==
  [r \in 1..Len(cs) |->
     cs[CHOOSE a \in 1..Len(cs) :
          Cardinality({b \in 1..Len(cs) : b # a /\ SortedBefore(cs, b, a)}) = r - 1]]

(***************************************************************************)
(* splitLargeCluster                                                       *)
(***************************************************************************)
NoSplit == [files |-> <<>>, numSubClusters |-> 0, subClusterFiles |-> <<>>,
            usedFiles |-> {}, i |-> 0]

\* Math.ceil(files.length / maxClusterSize)
NumSubClusters(m, maxClusterSize) ==
  (m + maxClusterSize - 1) \div maxClusterSize

\* similarity to the centroid of each member, by position: distance is
\* 1 - similarity.
CentroidSimilarities(clusterFiles) ==
  LET centroid == calculateCentroid([k \in 1..Len(clusterFiles) |->
                                       files[clusterFiles[k]]])
  IN [k \in 1..Len(clusterFiles) |->
        CentroidSimilarity(files[clusterFiles[k]], centroid)]

\* a.distance - b.distance < 0
DistanceLess(sims, a, b) == RGreater(sims[a], sims[b])

\* The comparator of distances.sort is consistent when no distance is NaN, or
\* when it finds every pair equal (a NaN difference counts as 0).
ConsistentDistances(sims) ==
  \/ \A k \in 1..Len(sims) : ~IsNaN(sims[k])
  \/ \A a, b \in 1..Len(sims) : ~DistanceLess(sims, a, b)

\* Position k is placed before position j by a stable ascending sort.
SortsBefore(sims, k, j) ==
  \/ DistanceLess(sims, k, j)
  \/ ~DistanceLess(sims, j, k) /\ k < j

\* The positions a stable sort by distance puts first: rank r is held by the
\* position that exactly r - 1 positions precede.
StableSeeds(sims, numSubClusters) ==
  [r \in 1..numSubClusters |->
     CHOOSE k \in 1..Len(sims) :
       Cardinality({j \in 1..Len(sims) : j # k /\ SortsBefore(sims, j, k)}) = r - 1]

\* distances[0 .. numSubClusters - 1] after distances.sort: the stable order
\* for a consistent comparator; for an inconsistent one (a NaN distance among
\* different distances) the order is implementation-defined, any positions.
SeedChoices(sims, numSubClusters) ==
  IF ConsistentDistances(sims)
  THEN {StableSeeds(sims, numSubClusters)}
  ELSE {s \in [1..numSubClusters -> 1..Len(sims)] :
          \A a, b \in 1..numSubClusters : a # b => s[a] # s[b]}

\* Mutant of HasRoom: room is tested with <= instead of <.
HasRoomOffByOne(subFiles, maxClusterSize) == Len(subFiles) <= maxClusterSize

\* subClusterFiles[j].length < maxClusterSize
HasRoom(subFiles, maxClusterSize) == Len(subFiles) < maxClusterSize

RECURSIVE SimilaritySum(_, _, _)
SimilaritySum(file, subFiles, k) ==
  IF k = 0 THEN Int2Rat(0)
  ELSE RAdd[SimilaritySum(file, subFiles, k - 1),
            cosineSimilarity(files[file], files[subFiles[k]])]

\* reduce(sum + similarity, 0) / subClusterFiles[j].length
AvgSimilarity(file, subFiles) ==
  LET sum == SimilaritySum(file, subFiles, Len(subFiles))
  IN IF Len(subFiles) = 0 THEN NaN ELSE RScale[sum, 1, Len(subFiles)]

\* The locals bestSubCluster and bestSimilarity (bestFit and
\* bestFitSimilarity).
BestSoFar == [index : Int, similarity : Number]

\* One round of the loop over j: if (avgSimilarity > bestSimilarity) ...
MoreSimilar[prev \in BestSoFar, k \in Nat, avgSimilarity \in Number] ==
  IF RGreater(avgSimilarity, prev.similarity)
  THEN [index |-> k, similarity |-> avgSimilarity]
  ELSE prev

\* The loop over j: the first sub-cluster of the highest average similarity
\* above -1; with onlyWithRoom, full sub-clusters are skipped.
RECURSIVE BestUpTo(_, _, _, _, _)
BestUpTo(file, subs, maxClusterSize, onlyWithRoom, k) ==
  IF k = 0 THEN [index |-> 1, similarity |-> Int2Rat(-1)]
  ELSE IF onlyWithRoom /\ ~HasRoom(subs[k], maxClusterSize)
       THEN BestUpTo(file, subs, maxClusterSize, onlyWithRoom, k - 1)
       ELSE MoreSimilar[BestUpTo(file, subs, maxClusterSize, onlyWithRoom, k - 1),
                        k, AvgSimilarity(file, subs[k])]

BestSubCluster(file, subs, maxClusterSize) ==
  BestUpTo(file, subs, maxClusterSize, TRUE, Len(subs)).index

BestFit(file, subs, maxClusterSize) ==
  BestUpTo(file, subs, maxClusterSize, FALSE, Len(subs)).index

\* Mutant of SubClusterObjects: currentClusterId is not advanced.
SubClusterObjectsOneId(subs, startClusterId) ==
  LET nonEmpty == SelectSeq(subs, LAMBDA fs : Len(fs) > 0)
  IN [k \in 1..Len(nonEmpty) |-> Cluster(startClusterId, nonEmpty[k])]

\* The sub-cluster objects: the non-empty sub-clusters, numbered from
\* startClusterId.
SubClusterObjects(subs, startClusterId) ==
  LET nonEmpty == SelectSeq(subs, LAMBDA fs : Len(fs) > 0)
  IN [k \in 1..Len(nonEmpty) |-> Cluster(startClusterId + k - 1, nonEmpty[k])]

(***************************************************************************)
(* clusterFiles, step by step                                              *)
(***************************************************************************)
\* The cluster the for-of loop is at, and the member the distribution loop
\* is at.
CurrentCluster == clusters[ci]

CurrentFile == split.files[split.i]

\* The options clusterFiles destructures.
Destructure(o) ==
  [minClusterSize |-> o.minClusterSize, maxClusterSize |-> o.maxClusterSize]

\* The for loop of autoClusterFiles: iteration <= maxIterations.
LoopCondition == iteration <= autoOptions.maxIterations

\* files.length < minClusterSize: all files in one cluster with id 0.
ShortCircuit ==
  /\ pc = "iterate"
  /\ LoopCondition
  /\ Len(files) < currentOptions.minClusterSize
  /\ opts' = Destructure(currentOptions)
  /\ finalClusters' = <<Cluster(0, Indices(Len(files)))>>
  /\ labels' = <<>>
  /\ clusters' = <<>>
  /\ pc' = "clustered"
  /\ UNCHANGED <<files, nextClusterId, ci, split>>
  /\ UNCHANGED autoVars

\* hdbscan.fit gave the labels ls: group the files by label and start the
\* post-processing loop.
Fit(ls) ==
  /\ pc = "iterate"
  /\ LoopCondition
  /\ ~(Len(files) < currentOptions.minClusterSize)
  /\ opts' = Destructure(currentOptions)
  /\ labels' = ls
  /\ clusters' = GroupByLabel(ls)
  /\ finalClusters' = <<>>
  /\ nextClusterId' = MaxId(clusters', Len(clusters')) + 1
  /\ ci' = 1
  /\ pc' = "post"
  /\ UNCHANGED <<files, split>>
  /\ UNCHANGED autoVars

\* The density primitive is a black box: any label per file.
FitAny == \E ls \in [1..Len(files) -> LabelValues] : Fit(ls)

\* Typical outcomes of the density primitive on larger inputs: all noise, one
\* cluster, one cluster per file, two interleaved clusters, blocks of four.
LabelShapes(n) ==
  { [i \in 1..n |-> -1],
    [i \in 1..n |-> 0],
    [i \in 1..n |-> i - 1],
    [i \in 1..n |-> (i - 1) % 2],
    [i \in 1..n |-> (i - 1) \div 4] }

FitShape == \E ls \in LabelShapes(Len(files)) : Fit(ls)

\* cluster.files.length <= maxClusterSize: the cluster is kept as it is.
PassThrough ==
  /\ pc = "post"
  /\ ci <= Len(clusters)
  /\ Len(CurrentCluster.files) <= opts.maxClusterSize
  /\ finalClusters' = Append(finalClusters, CurrentCluster)
  /\ ci' = ci + 1
  /\ UNCHANGED <<files, pc, opts, labels, clusters, nextClusterId, split>>
  /\ UNCHANGED autoVars

\* splitLargeCluster up to its seeds: the numSubClusters members closest to
\* the centroid start one sub-cluster each.
SplitBegin ==
  /\ pc = "post"
  /\ ci <= Len(clusters)
  /\ ~(Len(CurrentCluster.files) <= opts.maxClusterSize)
  /\ LET fs == CurrentCluster.files
         numSubClusters == NumSubClusters(Len(fs), opts.maxClusterSize)
     IN \E sims \in {CentroidSimilarities(fs)} :
        \E seeds \in SeedChoices(sims, numSubClusters) :
          split' = [files |-> fs,
                    numSubClusters |-> numSubClusters,
                    subClusterFiles |-> [k \in 1..numSubClusters |-> <<fs[seeds[k]]>>],
                    usedFiles |-> {seeds[k] : k \in 1..numSubClusters},
                    i |-> 1]
  /\ pc' = "distribute"
  /\ UNCHANGED <<files, opts, labels, clusters, finalClusters, nextClusterId, ci>>
  /\ UNCHANGED autoVars

Distributing == pc = "distribute" /\ split.i <= Len(split.files)

\* if (usedFiles.has(i)) continue
SkipSeed ==
  /\ Distributing
  /\ split.i \in split.usedFiles
  /\ split' = [split EXCEPT !.i = @ + 1]
  /\ UNCHANGED <<files, pc, opts, labels, clusters, finalClusters, nextClusterId, ci>>
  /\ UNCHANGED autoVars

\* The best sub-cluster has room: the file is appended to it.
DistributeAppend ==
  /\ Distributing
  /\ split.i \notin split.usedFiles
  /\ \E best \in {BestSubCluster(CurrentFile, split.subClusterFiles,
                                   opts.maxClusterSize)} :
        /\ HasRoom(split.subClusterFiles[best], opts.maxClusterSize)
        /\ split' = [split EXCEPT !.subClusterFiles[best] = Append(@, CurrentFile),
                                  !.i = @ + 1]
  /\ UNCHANGED <<files, pc, opts, labels, clusters, finalClusters, nextClusterId, ci>>
  /\ UNCHANGED autoVars

\* The sub-cluster and the member the else branch (lines 696-723) picks.
Replacement ==
  LET bestFit == BestFit(CurrentFile, split.subClusterFiles, opts.maxClusterSize)
  IN [bestFit |-> bestFit,
      leastSimilarIndex |->
        findLeastSimilarFile(CurrentFile, split.subClusterFiles[bestFit])]

TakesElseBranch ==
  /\ Distributing
  /\ split.i \notin split.usedFiles
  /\ ~HasRoom(split.subClusterFiles[BestSubCluster(CurrentFile, split.subClusterFiles,
                                                   opts.maxClusterSize)],
              opts.maxClusterSize)

\* The best sub-cluster is full: the file overwrites the least similar member
\* of the best-fit sub-cluster.
DistributeReplace ==
  /\ TakesElseBranch
  /\ \E r \in {Replacement} :
       /\ r.leastSimilarIndex # -1
       /\ split' = [split EXCEPT
                      !.subClusterFiles[r.bestFit][r.leastSimilarIndex] = CurrentFile,
                      !.i = @ + 1]
  /\ UNCHANGED <<files, pc, opts, labels, clusters, finalClusters, nextClusterId, ci>>
  /\ UNCHANGED autoVars

\* The best sub-cluster is full and no member is less similar than 1: the
\* file is put nowhere.
DistributeNowhere ==
  /\ TakesElseBranch
  /\ Replacement.leastSimilarIndex = -1
  /\ split' = [split EXCEPT !.i = @ + 1]
  /\ UNCHANGED <<files, pc, opts, labels, clusters, finalClusters, nextClusterId, ci>>
  /\ UNCHANGED autoVars

\* splitLargeCluster returns its sub-cluster objects; clusterFiles pushes
\* them and advances nextClusterId.
SplitEnd ==
  /\ pc = "distribute"
  /\ split.i > Len(split.files)
  /\ LET subClusters == SubClusterObjects(split.subClusterFiles, nextClusterId)
     IN /\ finalClusters' = finalClusters \o subClusters
        /\ nextClusterId' = nextClusterId + Len(subClusters)
  /\ ci' = ci + 1
  /\ split' = NoSplit
  /\ pc' = "post"
  /\ UNCHANGED <<files, opts, labels, clusters>>
  /\ UNCHANGED autoVars

\* The loop is over: finalClusters is sorted and returned.
SortAndReturn ==
  /\ pc = "post"
  /\ ci > Len(clusters)
  /\ finalClusters' = SortClusters(finalClusters)
  /\ pc' = "clustered"
  /\ UNCHANGED <<files, opts, labels, clusters, nextClusterId, ci, split>>
  /\ UNCHANGED autoVars

PostProcess ==
  \/ PassThrough
  \/ SplitBegin
  \/ SkipSeed
  \/ DistributeAppend
  \/ DistributeReplace
  \/ DistributeNowhere
  \/ SplitEnd
  \/ SortAndReturn

(***************************************************************************)
(* SpecCluster: clusterFiles on every small input                          *)
(***************************************************************************)
\* No triage session is running.
TriageIdle ==
  /\ disk = <<>>
  /\ filePath = <<>>
  /\ currentClusters = <<>>
  /\ currentIndex = 0
  /\ fileIndex = 0
  /\ fileStatuses = <<>>
  /\ renameTo = 0
  /\ triagePc = "idle"
  /\ unlinked = {}

\* No embedding cache is open.
CacheIdle ==
  /\ cache = <<>>
  /\ fastMode = FALSE
  /\ fsFiles = <<>>
  /\ served = <<>>

\* No getFileEmbeddings call is under way.
EmbedIdle ==
  /\ filePaths = <<>>
  /\ embedOutcome = <<>>
  /\ promises = <<>>
  /\ completedCount = 0
  /\ spinnerText = <<>>
  /\ completions = <<>>
  /\ results = [state |-> "none"]

ServicesIdle == CacheIdle /\ EmbedIdle

NoResult == [returned |-> FALSE]

InitCluster ==
  /\ \E n \in 0..MaxFiles : files \in [1..n -> Embeddings]
  /\ \E mn \in MinClusterSizes, mx \in MaxClusterSizes :
       currentOptions = [minClusterSize |-> mn, similarityThreshold |-> 95,
                         maxClusterSize |-> mx]
  /\ initialOptions = currentOptions
  /\ autoOptions = [maxIterations |-> 1, targetClusterCount |-> 0,
                    maxClusterSizePercent |-> 5, enableVerbose |-> FALSE]
  /\ iteration = 1
  /\ adjustments = <<>>
  /\ bestClusters = <<>>
  /\ bestScore = Int2Rat(0)
  /\ result = NoResult
  /\ trace = <<>>
  /\ console = <<>>
  /\ pc = "iterate"
  /\ opts = Destructure(currentOptions)
  /\ labels = <<>>
  /\ clusters = <<>>
  /\ finalClusters = <<>>
  /\ nextClusterId = 0
  /\ ci = 0
  /\ split = NoSplit
  /\ TriageIdle
  /\ ServicesIdle

NextCluster == ShortCircuit \/ FitAny \/ PostProcess

SpecCluster == InitCluster /\ [][NextCluster]_vars

(***************************************************************************)
(* SpecPrimitive: clusterFiles when the density primitive misbehaves       *)
(***************************************************************************)
\* hdbscan.fit throws: nothing catches it, clusterFiles rejects.
FitThrows ==
  /\ pc = "iterate"
  /\ LoopCondition
  /\ ~(Len(files) < currentOptions.minClusterSize)
  /\ pc' = "error"
  /\ UNCHANGED <<files, opts, labels, clusters, finalClusters, nextClusterId, ci, split>>
  /\ UNCHANGED autoVars

\* labels_ is longer than the file list: files[index] is undefined for the
\* extra labels, and reading its embedding for the centroid (line 525) throws.
FitLonger ==
  /\ pc = "iterate"
  /\ LoopCondition
  /\ ~(Len(files) < currentOptions.minClusterSize)
  /\ \E ls \in [1..(Len(files) + 1) -> LabelValues] : labels' = ls
  /\ pc' = "error"
  /\ UNCHANGED <<files, opts, clusters, finalClusters, nextClusterId, ci, split>>
  /\ UNCHANGED autoVars

\* labels_ is shorter than the file list (and not empty): labels.forEach
\* groups the files that have a label, and clusterFiles goes on.
FitShorter ==
  \E m \in 1..(Len(files) - 1) : \E ls \in [1..m -> LabelValues] : Fit(ls)

NextPrimitive ==
  \/ ShortCircuit
  \/ FitAny
  \/ FitThrows
  \/ FitLonger
  \/ FitShorter
  \/ PostProcess

SpecPrimitive == InitCluster /\ [][NextPrimitive]_vars

(***************************************************************************)
(* analyzeClusteringResults                                                *)
(***************************************************************************)
RECURSIVE SumSizes(_, _)
SumSizes(cs, k) ==
  IF k = 0 THEN 0 ELSE SumSizes(cs, k - 1) + Len(cs[k].files)

\* The bucket of a cluster size: 1-5, 6-10, 11-25, 26-50, 51-100, 100+.
Bucket(size) ==
  IF size <= 5 THEN 1
  ELSE IF size <= 10 THEN 2
  ELSE IF size <= 25 THEN 3
  ELSE IF size <= 50 THEN 4
  ELSE IF size <= 100 THEN 5
  ELSE 6

\* clusterSizes is kept as the sizes in cluster order; the code sorts them,
\* and reads only their maximum.
analyzeClusteringResults(cs) ==
  [totalClusters |-> Len(cs),
   totalFiles |-> SumSizes(cs, Len(cs)),
   clusterSizes |-> [k \in 1..Len(cs) |-> Len(cs[k].files)],
   sizeDistribution |->
     [b \in 1..6 |-> Cardinality({k \in 1..Len(cs) : Bucket(Len(cs[k].files)) = b})]]

RECURSIVE MaxOf(_, _)
MaxOf(sizes, k) ==
  IF k = 1 THEN sizes[1] ELSE Max2[MaxOf(sizes, k - 1), sizes[k]]

\* Math.max(...clusterSizes), for a non-empty clusterSizes.
MaxClusterSize(analysis) ==
  MaxOf(analysis.clusterSizes, Len(analysis.clusterSizes))

(***************************************************************************)
(* calculateClusteringScore                                                *)
(***************************************************************************)
\* A number of hundredths.
Pct(h) == Rat[h, 100]

\* Ideal distribution percentages of the six buckets.
idealSizes == <<10, 20, 30, 20, 15, 5>>

\* The weights of the three sub-scores.
CountWeight == Pct(30)

DistributionWeight == Pct(40)

SizeWeight == Pct(30)

\* max(0, 1 - |totalClusters - targetClusterCount| / targetClusterCount)
CountScore(analysis, targetClusterCount) ==
  RMax0[RSub[Int2Rat(1),
             Rat[Abs(analysis.totalClusters - targetClusterCount),
                 targetClusterCount]]]

RECURSIVE DistributionSum(_, _)
DistributionSum(analysis, k) ==
  IF k = 0 THEN Int2Rat(0)
  ELSE LET actual == Rat[analysis.sizeDistribution[k], analysis.totalClusters]
       IN RAdd[DistributionSum(analysis, k - 1),
               RMax0[RSub[Int2Rat(1), RAbs[RSub[actual, Pct(idealSizes[k])]]]]]

DistributionScore(analysis) ==
  RScale[DistributionSum(analysis, Len(idealSizes)), 1, Len(idealSizes)]

\* Mutant of SizeScore: the size score is not clamped at 0.
SizeScoreUnclamped(analysis, totalFiles) ==
  LET maxClusterPercent == Rat[MaxClusterSize(analysis), totalFiles]
      sizePenalty == RScale[RMax0[RSub[maxClusterPercent, Pct(5)]], 6, 1]
  IN RSub[Int2Rat(1), sizePenalty]

\* max(0, 1 - sizePenalty) with sizePenalty = max(0, maxClusterPercent - 0.05) * 6
SizeScore(analysis, totalFiles) ==
  LET maxClusterPercent == Rat[MaxClusterSize(analysis), totalFiles]
      sizePenalty == RScale[RMax0[RSub[maxClusterPercent, Pct(5)]], 6, 1]
  IN RMax0[RSub[Int2Rat(1), sizePenalty]]

calculateClusteringScore(analysis, totalFiles, targetClusterCount) ==
  LET afterCount ==
        IF targetClusterCount # 0
        THEN RMul[CountScore(analysis, targetClusterCount), CountWeight]
        ELSE Int2Rat(0)
      afterDistribution ==
        RAdd[afterCount, RMul[DistributionScore(analysis), DistributionWeight]]
      score ==
        RAdd[afterDistribution, RMul[SizeScore(analysis, totalFiles), SizeWeight]]
  IN RMin1[score]

(***************************************************************************)
(* adjustClusteringParameters                                              *)
(***************************************************************************)
\* Math.floor(k * num / den) for k >= 0
FloorMul(k, num, den) == (k * num) \div den

\* Math.max(...clusterSizes) / totalFiles
MaxClusterPercent(analysis, totalFiles) ==
  Rat[MaxClusterSize(analysis), totalFiles]

\* Rule 1 fires: one cluster is larger than maxClusterSizePercent of the files.
GiantCluster(analysis, totalFiles, maxClusterSizePercent) ==
  RGreater(MaxClusterPercent(analysis, totalFiles), Pct(maxClusterSizePercent))

\* Rule 1 (lines 1052-1073): maxClusterSize becomes a fraction of the
\* largest cluster, at least 5; the threshold, when set, is lowered to no
\* less than 0.7.
GiantClusterRule(o, analysis, totalFiles, maxClusterSizePercent) ==
  LET maxClusterSize == MaxClusterSize(analysis)
      giant == RGreater(MaxClusterPercent(analysis, totalFiles), Pct(15))
  IN IF GiantCluster(analysis, totalFiles, maxClusterSizePercent)
     THEN [o EXCEPT
             !.maxClusterSize =
                Max2[5, IF giant THEN FloorMul(maxClusterSize, 3, 10)
                                 ELSE FloorMul(maxClusterSize, 5, 10)],
             !.similarityThreshold =
                IF @ # 0 THEN Max2[70, @ - (IF giant THEN 20 ELSE 10)] ELSE @]
     ELSE o

\* Rule 2 (lines 1075-1084): many small clusters raise minClusterSize.
SmallClusterRule(o, analysis) ==
  LET smallClusterCount == analysis.sizeDistribution[1] + analysis.sizeDistribution[2]
  IN IF /\ RGreater(Rat[smallClusterCount, analysis.totalClusters], Pct(70))
        /\ smallClusterCount > 30
     THEN [o EXCEPT !.minClusterSize = Min2[10, (IF @ # 0 THEN @ ELSE 2) + 1]]
     ELSE o

\* currentRatio > targetRatio * 1.5
OverTarget(analysis, totalFiles, targetClusterCount) ==
  /\ targetClusterCount # 0
  /\ RGreater(Rat[analysis.totalClusters, totalFiles],
              RScale[Rat[targetClusterCount, totalFiles], 3, 2])

\* currentRatio < targetRatio * 0.5, when not over target
UnderTarget(analysis, totalFiles, targetClusterCount) ==
  /\ targetClusterCount # 0
  /\ ~OverTarget(analysis, totalFiles, targetClusterCount)
  /\ RLess(Rat[analysis.totalClusters, totalFiles],
           RScale[Rat[targetClusterCount, totalFiles], 1, 2])

\* Rule 3 (lines 1086-1104): the threshold follows the cluster count.
TargetRatioRule(o, analysis, totalFiles, targetClusterCount) ==
  IF OverTarget(analysis, totalFiles, targetClusterCount)
  THEN [o EXCEPT !.similarityThreshold = Min2[98, (IF @ # 0 THEN @ ELSE 95) + 2]]
  ELSE IF UnderTarget(analysis, totalFiles, targetClusterCount)
       THEN [o EXCEPT !.similarityThreshold = Max2[80, (IF @ # 0 THEN @ ELSE 95) - 3]]
       ELSE o

\* Rule 4 fires: there are clusters of more than 50 files and the average
\* cluster is larger than 0.8 maxClusterSize.
LargeClusterGlut(o, analysis, totalFiles) ==
  /\ analysis.sizeDistribution[5] + analysis.sizeDistribution[6] > 0
  /\ o.maxClusterSize # 0
  /\ RGreater(Rat[totalFiles, analysis.totalClusters], Rat[o.maxClusterSize * 8, 10])

\* Rule 4 (lines 1106-1118)
LargeClusterRule(o, analysis, totalFiles) ==
  IF LargeClusterGlut(o, analysis, totalFiles)
  THEN [o EXCEPT !.maxClusterSize = Max2[10, FloorMul(@, 8, 10)]]
  ELSE o

\* Rule 5 (lines 1120-1131): a cluster of more than 100 files.
FineTuneRule(o, analysis) ==
  IF analysis.sizeDistribution[6] > 0
  THEN [o EXCEPT
          !.similarityThreshold = Max2[80, (IF @ # 0 THEN @ ELSE 95) - 5],
          !.maxClusterSize = Max2[10, FloorMul(IF @ # 0 THEN @ ELSE 50, 6, 10)]]
  ELSE o

\* Rule 6 fires: one cluster is larger than 10% of the files.
Emergency(analysis, totalFiles) ==
  RGreater(MaxClusterPercent(analysis, totalFiles), Pct(10))

\* Rule 6 (lines 1133-1143)
EmergencyRule(o, analysis, totalFiles) ==
  IF Emergency(analysis, totalFiles)
  THEN [o EXCEPT
          !.maxClusterSize = Max2[5, FloorMul(MaxClusterSize(analysis), 25, 100)],
          !.similarityThreshold = IF @ # 0 THEN Max2[70, @ - 25] ELSE @]
  ELSE o

\* newOptions after rules 1 to 4, as rule 5 and rule 6 find it.
AfterRule4(current, analysis, totalFiles, maxClusterSizePercent, targetClusterCount) ==
  LargeClusterRule(
    TargetRatioRule(
      SmallClusterRule(
        GiantClusterRule(current, analysis, totalFiles, maxClusterSizePercent),
        analysis),
      analysis, totalFiles, targetClusterCount),
    analysis, totalFiles)

adjustClusteringParameters(current, analysis, totalFiles, maxClusterSizePercent, targetClusterCount) ==
  EmergencyRule(
    FineTuneRule(
      AfterRule4(current, analysis, totalFiles, maxClusterSizePercent,
                 targetClusterCount),
      analysis),
    analysis, totalFiles)

\* describeParameterChanges: the changed parameters, in the order the code
\* lists them, each with its old and its new value.
describeParameterChanges(oldOptions, newOptions) ==
  (IF oldOptions.minClusterSize # newOptions.minClusterSize
   THEN <<[name |-> "min-cluster-size", old |-> oldOptions.minClusterSize,
           new |-> newOptions.minClusterSize]>>
   ELSE <<>>)
  \o (IF oldOptions.similarityThreshold # newOptions.similarityThreshold
      THEN <<[name |-> "similarity-threshold", old |-> oldOptions.similarityThreshold,
              new |-> newOptions.similarityThreshold]>>
      ELSE <<>>)
  \o (IF oldOptions.maxClusterSize # newOptions.maxClusterSize
      THEN <<[name |-> "max-cluster-size", old |-> oldOptions.maxClusterSize,
              new |-> newOptions.maxClusterSize]>>
      ELSE <<>>)

(***************************************************************************)
(* autoClusterFiles                                                        *)
(***************************************************************************)
\* Largest maxIterations of the autoClusterFiles specification (the default
\* of the code is 3).
MaxIterations == 3

\* Inputs of the autoClusterFiles specification.
EmbeddingPatterns(n) ==
  { [i \in 1..n |-> <<1>>],
    [i \in 1..n |-> <<<<1>>, <<-1>>, <<0>>>>[((i - 1) % 3) + 1]] }

InitialMinClusterSizes == {2}

InitialMaxClusterSizes == {2, 20}

InitialThresholds == {95}

TargetClusterCounts == {0, 12}

\* Lines 860-865: the defaults, overridden by the fields the caller
\* supplied (0: the field is absent).
Defaulted(initial) ==
  [minClusterSize |->
     IF initial.minClusterSize # 0 THEN initial.minClusterSize ELSE 2,
   similarityThreshold |->
     IF initial.similarityThreshold # 0 THEN initial.similarityThreshold ELSE 95,
   maxClusterSize |->
     IF initial.maxClusterSize # 0 THEN initial.maxClusterSize ELSE 20]

\* The hard cap on maxClusterSize: min(maxClusterSize || 20,
\* max(20, floor(totalFiles * maxClusterSizePercent))).
HardCapped(initial, totalFiles, maxClusterSizePercent) ==
  [initial EXCEPT
     !.maxClusterSize =
        Min2[IF @ # 0 THEN @ ELSE 20,
             Max2[20, FloorMul(totalFiles, maxClusterSizePercent, 100)]]]

\* Mutant of BetterThanBest: the latest score always replaces the best one.
LatestIsBest(score, best) == TRUE

\* Mutant of BetterThanBest: score >= bestScore.
BetterOrEqual(score, best) == RGreater(score, best) \/ REq(score, best)

\* score > bestScore
BetterThanBest(score, best) == RGreater(score, best)

\* Mutant of GoodEnough: a verbose run stops after its first iteration.
GoodEnoughOrVerbose(score) ==
  RGreater(score, Pct(80)) \/ autoOptions.enableVerbose

\* Mutant of GoodEnough: the threshold is 0.9.
GoodEnoughAbove90(score) == RGreater(score, Pct(90))

\* score > 0.8
GoodEnough(score) == RGreater(score, Pct(80))

\* Mutant of HasChanges: the comparison always finds a change.
HasChangesAlways(newOptions, current) == TRUE

\* JSON.stringify(newOptions) !== JSON.stringify(currentOptions)
HasChanges(newOptions, current) == newOptions # current

\* iteration === maxIterations
LastIteration == iteration = autoOptions.maxIterations

\* Mutant of NextIteration: the counter is not advanced.
NextIterationStuck(i) == i

\* iteration++
NextIteration(i) == i + 1

\* What one iteration computes from the partition clusterFiles returned.
Analysis == analyzeClusteringResults(finalClusters)

Score ==
  calculateClusteringScore(Analysis, Len(files), autoOptions.targetClusterCount)

NewOptions ==
  adjustClusteringParameters(currentOptions, Analysis, Len(files),
                             autoOptions.maxClusterSizePercent,
                             autoOptions.targetClusterCount)

\* if (enableVerbose) console.log(line)
Log(line) == IF autoOptions.enableVerbose THEN Append(console, line) ELSE console

\* Lines 897-916: the iteration is scored and the best result kept.  The
\* history records the iteration, whether the tuner was called and what it
\* proposed.
KeepBest(score, tunerCalled, proposed) ==
  /\ bestScore' = IF BetterThanBest(score, bestScore) THEN score ELSE bestScore
  /\ bestClusters' =
       IF BetterThanBest(score, bestScore) THEN finalClusters ELSE bestClusters
  /\ trace' = Append(trace, [current |-> currentOptions,
                             options |-> opts,
                             clusters |-> finalClusters,
                             score |-> score,
                             tunerCalled |-> tunerCalled,
                             proposed |-> proposed])
  /\ UNCHANGED <<serviceVars, triageVars, files, initialOptions, autoOptions, result, opts, labels, clusters,
                 finalClusters, nextClusterId, ci, split>>

\* score > 0.8: break
StopGoodEnough ==
  /\ pc = "clustered"
  /\ \E score \in {Score} :
       /\ GoodEnough(score)
       /\ KeepBest(score, FALSE, currentOptions)
  /\ console' = Log("good enough, stopping")
  /\ pc' = "return"
  /\ UNCHANGED <<currentOptions, iteration, adjustments>>

\* iteration === maxIterations: break
StopMaxIterations ==
  /\ pc = "clustered"
  /\ LastIteration
  /\ \E score \in {Score} :
       /\ ~GoodEnough(score)
       /\ KeepBest(score, FALSE, currentOptions)
  /\ console' = Log("reached maximum iterations")
  /\ pc' = "return"
  /\ UNCHANGED <<currentOptions, iteration, adjustments>>

\* The tuner proposes the current parameters: break
StopNoChanges ==
  /\ pc = "clustered"
  /\ ~LastIteration
  /\ \E score \in {Score}, newOptions \in {NewOptions} :
       /\ ~GoodEnough(score)
       /\ ~HasChanges(newOptions, currentOptions)
       /\ KeepBest(score, TRUE, newOptions)
  /\ console' = Log("no parameter changes needed")
  /\ pc' = "return"
  /\ UNCHANGED <<currentOptions, iteration, adjustments>>

\* The tuner proposes other parameters: they are logged and the next
\* iteration starts with them.
ApplyAdjustments ==
  /\ pc = "clustered"
  /\ ~LastIteration
  /\ \E score \in {Score}, newOptions \in {NewOptions} :
       /\ ~GoodEnough(score)
       /\ HasChanges(newOptions, currentOptions)
       /\ KeepBest(score, TRUE, newOptions)
       /\ adjustments' =
            Append(adjustments,
                   [iteration |-> iteration,
                    changes |-> describeParameterChanges(currentOptions, newOptions)])
       /\ currentOptions' = newOptions
  /\ console' = Log("adjusting")
  /\ iteration' = NextIteration(iteration)
  /\ pc' = "iterate"

\* The loop condition fails: the loop is left without a break.
LoopExit ==
  /\ pc = "iterate"
  /\ ~LoopCondition
  /\ pc' = "return"
  /\ UNCHANGED <<serviceVars, triageVars, files, initialOptions, autoOptions, currentOptions, iteration, adjustments,
                 bestClusters, bestScore, result, trace, opts, labels, clusters,
                 finalClusters, nextClusterId, ci, split, console>>

\* Lines 969-987: the best result is returned.
Return ==
  /\ pc = "return"
  /\ result' = [returned |-> TRUE,
                clusters |-> bestClusters,
                iterations |-> Min2[autoOptions.maxIterations, Len(adjustments) + 1],
                finalOptions |-> currentOptions,
                adjustments |-> adjustments,
                analysis |-> analyzeClusteringResults(bestClusters)]
  /\ console' = Log("final result")
  /\ pc' = "done"
  /\ UNCHANGED <<serviceVars, triageVars, files, initialOptions, autoOptions, currentOptions, iteration, adjustments,
                 bestClusters, bestScore, trace, opts, labels, clusters,
                 finalClusters, nextClusterId, ci, split>>

Init ==
  /\ \E n \in FileCounts : files \in EmbeddingPatterns(n)
  /\ \E mi \in 0..MaxIterations, t \in TargetClusterCounts :
       autoOptions = [maxIterations |-> mi, targetClusterCount |-> t,
                      maxClusterSizePercent |-> 5, enableVerbose |-> FALSE]
  /\ \E mn \in InitialMinClusterSizes, mx \in InitialMaxClusterSizes,
        th \in InitialThresholds :
       initialOptions = [minClusterSize |-> mn, similarityThreshold |-> th,
                         maxClusterSize |-> mx]
  /\ currentOptions =
       HardCapped(Defaulted(initialOptions), Len(files),
                  autoOptions.maxClusterSizePercent)
  /\ iteration = 1
  /\ adjustments = <<>>
  /\ bestClusters = <<>>
  /\ bestScore = Int2Rat(0)
  /\ result = NoResult
  /\ trace = <<>>
  /\ console = <<>>
  /\ pc = "iterate"
  /\ opts = Destructure(currentOptions)
  /\ labels = <<>>
  /\ clusters = <<>>
  /\ finalClusters = <<>>
  /\ nextClusterId = 0
  /\ ci = 0
  /\ split = NoSplit
  /\ TriageIdle
  /\ ServicesIdle

Next ==
  \/ ShortCircuit
  \/ FitShape
  \/ PostProcess
  \/ StopGoodEnough
  \/ StopMaxIterations
  \/ StopNoChanges
  \/ ApplyAdjustments
  \/ LoopExit
  \/ Return

Spec == Init /\ [][Next]_vars

\* The program is sequential and keeps running until it returns: a step
\* that can be taken is taken (the density primitive is assumed to return).
SpecFair == Spec /\ WF_vars(Next)

(***************************************************************************)
(* SpecCancel: autoClusterFiles while the caller raises a cancellation     *)
(* signal                                                                  *)
(***************************************************************************)
\* The caller passes a cancellation signal along with autoOptions.  The
\* destructuring of lines 851-857 reads maxIterations, targetClusterCount,
\* maxClusterSizePercent, minClusterSizePercent and enableVerbose: a signal
\* is a property no line of autoClusterFiles reads.
InitCancel ==
  /\ \E n \in FileCounts : files \in EmbeddingPatterns(n)
  /\ \E mi \in 0..MaxIterations, t \in TargetClusterCounts :
       autoOptions = [maxIterations |-> mi, targetClusterCount |-> t,
                      maxClusterSizePercent |-> 5, enableVerbose |-> FALSE,
                      cancelled |-> FALSE]
  /\ \E mn \in InitialMinClusterSizes, mx \in InitialMaxClusterSizes,
        th \in InitialThresholds :
       initialOptions = [minClusterSize |-> mn, similarityThreshold |-> th,
                         maxClusterSize |-> mx]
  /\ currentOptions =
       HardCapped(Defaulted(initialOptions), Len(files),
                  autoOptions.maxClusterSizePercent)
  /\ iteration = 1
  /\ adjustments = <<>>
  /\ bestClusters = <<>>
  /\ bestScore = Int2Rat(0)
  /\ result = NoResult
  /\ trace = <<>>
  /\ console = <<>>
  /\ pc = "iterate"
  /\ opts = Destructure(currentOptions)
  /\ labels = <<>>
  /\ clusters = <<>>
  /\ finalClusters = <<>>
  /\ nextClusterId = 0
  /\ ci = 0
  /\ split = NoSplit
  /\ TriageIdle
  /\ ServicesIdle

\* The caller raises the signal while the run is in progress.
Cancel ==
  /\ pc # "done"
  /\ ~autoOptions.cancelled
  /\ autoOptions' = [autoOptions EXCEPT !.cancelled = TRUE]
  /\ UNCHANGED <<serviceVars, triageVars, files, initialOptions, currentOptions, iteration, adjustments,
                 bestClusters, bestScore, result, pc, opts, labels, clusters,
                 finalClusters, nextClusterId, ci, split, console, trace>>

NextCancel == Next \/ Cancel

SpecCancel == InitCancel /\ [][NextCancel]_vars

\* What autoClusterFiles returns as a function of its options auto, the
\* number of files, the initial parameters and the partitions cs[1], cs[2],
\* ... clusterFiles returned: the loop of lines 890-967 from iteration i
\* on, with nothing of enableVerbose in it.  The run ends when it needs a
\* partition cs does not hold.
RECURSIVE QuietLoop(_, _, _, _, _, _, _, _)
QuietLoop(auto, totalFiles, cs, i, options, best, best_score, log) ==
  IF i > auto.maxIterations \/ i > Len(cs)
  THEN [clusters |-> best,
        iterations |-> Min2[auto.maxIterations, Len(log) + 1],
        finalOptions |-> options,
        adjustments |-> log]
  ELSE LET analysis == analyzeClusteringResults(cs[i])
           score == calculateClusteringScore(analysis, totalFiles,
                                             auto.targetClusterCount)
           kept == IF RGreater(score, best_score) THEN cs[i] ELSE best
           kept_score == IF RGreater(score, best_score) THEN score ELSE best_score
           newOptions ==
             adjustClusteringParameters(options, analysis, totalFiles,
                                        auto.maxClusterSizePercent,
                                        auto.targetClusterCount)
           stop == \/ RGreater(score, Pct(80))
                   \/ i = auto.maxIterations
                   \/ newOptions = options
       IN IF stop
          THEN [clusters |-> kept,
                iterations |-> Min2[auto.maxIterations, Len(log) + 1],
                finalOptions |-> options,
                adjustments |-> log]
          ELSE QuietLoop(auto, totalFiles, cs, i + 1, newOptions, kept, kept_score,
                         Append(log, [iteration |-> i,
                                      changes |-> describeParameterChanges(options, newOptions)]))

(***************************************************************************)
(* SpecVerbose: autoClusterFiles with and without enableVerbose            *)
(***************************************************************************)
\* Lines 881-888: the verbose header is printed before the loop.
InitVerbose ==
  /\ \E n \in FileCounts : files \in EmbeddingPatterns(n)
  /\ \E mi \in 0..MaxIterations, t \in TargetClusterCounts, v \in BOOLEAN :
       autoOptions = [maxIterations |-> mi, targetClusterCount |-> t,
                      maxClusterSizePercent |-> 5, enableVerbose |-> v]
  /\ \E mn \in InitialMinClusterSizes, mx \in InitialMaxClusterSizes,
        th \in InitialThresholds :
       initialOptions = [minClusterSize |-> mn, similarityThreshold |-> th,
                         maxClusterSize |-> mx]
  /\ currentOptions =
       HardCapped(Defaulted(initialOptions), Len(files),
                  autoOptions.maxClusterSizePercent)
  /\ iteration = 1
  /\ adjustments = <<>>
  /\ bestClusters = <<>>
  /\ bestScore = Int2Rat(0)
  /\ result = NoResult
  /\ trace = <<>>
  /\ console = IF autoOptions.enableVerbose THEN <<"starting">> ELSE <<>>
  /\ pc = "iterate"
  /\ opts = Destructure(currentOptions)
  /\ labels = <<>>
  /\ clusters = <<>>
  /\ finalClusters = <<>>
  /\ nextClusterId = 0
  /\ ci = 0
  /\ split = NoSplit
  /\ TriageIdle
  /\ ServicesIdle

SpecVerbose == InitVerbose /\ [][Next]_vars

(***************************************************************************)
(* SpecOptions: autoClusterFiles with caller-supplied initial options      *)
(***************************************************************************)
\* Fields of initialOptions (0: the caller leaves the field out).
CallerMinClusterSizes == {0, 8}

CallerMaxClusterSizes == {2, 40}

CallerThresholds == {0, 98}

CallerTargetClusterCounts == {2, 12}

InitOptions ==
  /\ \E n \in FileCounts : files \in EmbeddingPatterns(n)
  /\ \E mi \in 0..MaxIterations, t \in CallerTargetClusterCounts :
       autoOptions = [maxIterations |-> mi, targetClusterCount |-> t,
                      maxClusterSizePercent |-> 5, enableVerbose |-> FALSE]
  /\ initialOptions \in [minClusterSize : CallerMinClusterSizes,
                         similarityThreshold : CallerThresholds,
                         maxClusterSize : CallerMaxClusterSizes]
  /\ currentOptions =
       HardCapped(Defaulted(initialOptions), Len(files),
                  autoOptions.maxClusterSizePercent)
  /\ iteration = 1
  /\ adjustments = <<>>
  /\ bestClusters = <<>>
  /\ bestScore = Int2Rat(0)
  /\ result = NoResult
  /\ trace = <<>>
  /\ console = <<>>
  /\ pc = "iterate"
  /\ opts = Destructure(currentOptions)
  /\ labels = <<>>
  /\ clusters = <<>>
  /\ finalClusters = <<>>
  /\ nextClusterId = 0
  /\ ci = 0
  /\ split = NoSplit
  /\ TriageIdle
  /\ ServicesIdle

SpecOptions == InitOptions /\ [][Next]_vars

(***************************************************************************)
(* Interactive triage (interactive.ts, operations.ts, splitCluster)        *)
(***************************************************************************)
\* Depth to which sub-clusters are split again: a cluster is split while
\* its id is below 1000^MaxSplitDepth in absolute value.
MaxSplitDepth == 1

\* The number of paths handed to getFileEmbeddings.
MaxPaths == 3

\* Content of a path that holds no file (fs calls fail with ENOENT), and
\* content of a file another process has created.
NoFile == 0

External == 99

\* The labels of the clusterings a triage session starts from: file f is
\* the f-th file, its path is f at first.
TriageLabelings == {<<0, 0, -1>>, <<0, 0, 0, 0, 1>>}

TriageFiles == 1..Len(filePath)

Paths == DOMAIN disk

\* cluster, file and file.filePath of the running triageCluster/triageFile.
TriagedCluster == currentClusters[currentIndex]

TriagedFile == TriagedCluster.files[fileIndex]

TriagedPath == filePath[TriagedFile]

RECURSIVE Power(_, _)
Power(b, e) == IF e = 0 THEN 1 ELSE b * Power(b, e - 1)

\* clusterFiles on at most 5 files with minClusterSize 2 and a
\* maxClusterSize of 5 or more: no short circuit and no cluster to split,
\* the result is the sorted grouping of the labels.
UnsplitPartition(ls) == SortClusters(GroupByLabel(ls))

\* The options splitCluster passes to autoClusterFiles (lines 1785-1795).
SplitInitialOptions ==
  [minClusterSize |-> 2, similarityThreshold |-> 0, maxClusterSize |-> 0]

SplitAutoOptions ==
  [maxIterations |-> 3, targetClusterCount |-> 0, maxClusterSizePercent |-> 5,
   enableVerbose |-> FALSE]

\* result.clusters of the autoClusterFiles call of splitCluster on m files,
\* when the clusterings of its iterations are cs.
SplitResult(m, cs) ==
  QuietLoop(SplitAutoOptions, m, cs, 1,
            HardCapped(Defaulted(SplitInitialOptions), m,
                       SplitAutoOptions.maxClusterSizePercent),
            <<>>, Int2Rat(0), <<>>).clusters

\* Lines 1798-1801: the sub-clusters get the ids cluster.id * 1000 + index
\* (index from 0) and hold the FileItems of the cluster.
Renumbered(cluster, subs) ==
  [k \in 1..Len(subs) |->
     [id |-> cluster.id * 1000 + (k - 1),
      files |-> [n \in 1..Len(subs[k].files) |-> cluster.files[subs[k].files[n]]]]]

\* splitCluster(cluster): the cluster itself when it has fewer than 4
\* files, else what autoClusterFiles makes of its files.
splitCluster(cluster) ==
  IF Len(cluster.files) < 4 THEN {<<cluster>>}
  ELSE LET m == Len(cluster.files)
           partitions == {UnsplitPartition(ls) : ls \in LabelShapes(m)}
       IN {Renumbered(cluster, SplitResult(m, cs)) :
             cs \in [1..SplitAutoOptions.maxIterations -> partitions]}

\* currentClusters.splice(currentIndex, 1, ...subClusters)
Splice(cs, k, subs) ==
  SubSeq(cs, 1, k - 1) \o subs \o SubSeq(cs, k + 1, Len(cs))

\* deleteFile on paths[k], paths[k + 1], ... in turn: the disk it leaves and
\* the position at which fs.unlink failed (0: none).
RECURSIVE UnlinkFrom(_, _, _)
UnlinkFrom(d, paths, k) ==
  IF k > Len(paths) THEN [disk |-> d, failed |-> 0]
  ELSE IF d[paths[k]] = NoFile THEN [disk |-> d, failed |-> k]
  ELSE UnlinkFrom([d EXCEPT ![paths[k]] = NoFile], paths, k + 1)

\* A session on the clustering with labels ls.
InitSession(ls) ==
       /\ currentClusters = UnsplitPartition(ls)
       /\ filePath = [f \in 1..Len(ls) |-> f]
       /\ disk = [p \in 1..(Len(ls) + 1) |-> IF p <= Len(ls) THEN p ELSE NoFile]
  /\ currentIndex = 1
  /\ fileIndex = 0
  /\ fileStatuses = <<>>
  /\ renameTo = 0
  /\ triagePc = "cluster"
  /\ unlinked = {}
  /\ ServicesIdle
  /\ files = <<>>
  /\ initialOptions = SplitInitialOptions
  /\ autoOptions = SplitAutoOptions
  /\ currentOptions = SplitInitialOptions
  /\ iteration = 1
  /\ adjustments = <<>>
  /\ bestClusters = <<>>
  /\ bestScore = Int2Rat(0)
  /\ result = NoResult
  /\ trace = <<>>
  /\ console = <<>>
  /\ pc = "idle"
  /\ opts = Destructure(currentOptions)
  /\ labels = <<>>
  /\ clusters = <<>>
  /\ finalClusters = <<>>
  /\ nextClusterId = 0
  /\ ci = 0
  /\ split = NoSplit

InitTriage == \E ls \in TriageLabelings : InitSession(ls)

\* triageClusters, lines 34-49: the while loop calls triageCluster, which
\* sets every file of the cluster to pending and starts its for loop.
BeginCluster ==
  /\ triagePc = "cluster"
  /\ currentIndex <= Len(currentClusters)
  /\ fileStatuses' = [k \in 1..Len(TriagedCluster.files) |-> "pending"]
  /\ fileIndex' = 1
  /\ triagePc' = "file"
  /\ UNCHANGED <<disk, filePath, currentClusters, currentIndex, renameTo, unlinked>>
  /\ UNCHANGED <<engineVars, serviceVars>>

\* The while loop is over: "Triage complete!"
TriageComplete ==
  /\ triagePc = "cluster"
  /\ currentIndex > Len(currentClusters)
  /\ triagePc' = "done"
  /\ UNCHANGED <<disk, filePath, currentClusters, currentIndex, fileIndex,
                 fileStatuses, renameTo, unlinked>>
  /\ UNCHANGED <<engineVars, serviceVars>>

\* The for loop of triageCluster is over: it returns false and
\* triageClusters moves to the next cluster.
EndCluster ==
  /\ triagePc = "file"
  /\ fileIndex > Len(TriagedCluster.files)
  /\ currentIndex' = currentIndex + 1
  /\ triagePc' = "cluster"
  /\ UNCHANGED <<disk, filePath, currentClusters, fileIndex, fileStatuses,
                 renameTo, unlinked>>
  /\ UNCHANGED <<engineVars, serviceVars>>

\* triageFile is at its prompt for the file at fileIndex.
Prompting == triagePc = "file" /\ fileIndex <= Len(TriagedCluster.files)

\* "Delete this file": deleteFile, which rethrows the error of fs.unlink;
\* nothing catches it and the session ends.
ChooseDelete ==
  /\ Prompting
  /\ IF disk[TriagedPath] = NoFile
     THEN /\ triagePc' = "error"
          /\ UNCHANGED <<disk, fileStatuses, fileIndex, unlinked>>
     ELSE /\ disk' = [disk EXCEPT ![TriagedPath] = NoFile]
          /\ unlinked' = unlinked \union {TriagedFile}
          /\ fileStatuses' = [fileStatuses EXCEPT ![fileIndex] = "deleted"]
          /\ fileIndex' = fileIndex + 1
          /\ UNCHANGED triagePc
  /\ UNCHANGED <<filePath, currentClusters, currentIndex, renameTo>>
  /\ UNCHANGED <<engineVars, serviceVars>>

\* "Skip to next file"
ChooseNext ==
  /\ Prompting
  /\ fileStatuses' = [fileStatuses EXCEPT ![fileIndex] = "skipped"]
  /\ fileIndex' = fileIndex + 1
  /\ UNCHANGED <<disk, filePath, currentClusters, currentIndex, renameTo,
                 triagePc, unlinked>>
  /\ UNCHANGED <<engineVars, serviceVars>>

\* "Delete this file and all remaining in cluster": triageFile deletes the
\* file, triageCluster (lines 113-128) the files after it, then breaks.
ChooseDeleteAll ==
  /\ Prompting
  /\ \E r \in {UnlinkFrom(disk, [k \in 1..Len(TriagedCluster.files) |->
                                   filePath[TriagedCluster.files[k]]], fileIndex)} :
       \E last \in {IF r.failed = 0 THEN Len(TriagedCluster.files) ELSE r.failed - 1} :
         /\ disk' = r.disk
         /\ unlinked' = unlinked \union
                          {TriagedCluster.files[k] : k \in fileIndex..last}
         /\ fileStatuses' = [k \in 1..Len(fileStatuses) |->
                               IF k \in fileIndex..last THEN "deleted"
                               ELSE fileStatuses[k]]
         /\ IF r.failed = 0
            THEN /\ currentIndex' = currentIndex + 1
                 /\ triagePc' = "cluster"
            ELSE /\ triagePc' = "error"
                 /\ UNCHANGED currentIndex
  /\ UNCHANGED <<filePath, currentClusters, fileIndex, renameTo>>
  /\ UNCHANGED <<engineVars, serviceVars>>

\* "Skip to next cluster": the pending files from this one on are skipped.
ChooseSkipCluster ==
  /\ Prompting
  /\ fileStatuses' = [k \in 1..Len(fileStatuses) |->
                        IF k >= fileIndex /\ fileStatuses[k] = "pending"
                        THEN "skipped" ELSE fileStatuses[k]]
  /\ currentIndex' = currentIndex + 1
  /\ triagePc' = "cluster"
  /\ UNCHANGED <<disk, filePath, currentClusters, fileIndex, renameTo, unlinked>>
  /\ UNCHANGED <<engineVars, serviceVars>>

\* "Split this cluster": triageClusters replaces the cluster by the
\* sub-clusters of splitCluster and goes on at the same index.
ChooseSplit ==
  /\ Prompting
  /\ Abs(TriagedCluster.id) < Power(1000, MaxSplitDepth)
  /\ \E subClusters \in splitCluster(TriagedCluster) :
       currentClusters' = Splice(currentClusters, currentIndex, subClusters)
  /\ triagePc' = "cluster"
  /\ UNCHANGED <<disk, filePath, currentIndex, fileIndex, fileStatuses,
                 renameTo, unlinked>>
  /\ UNCHANGED <<engineVars, serviceVars>>

\* "Quit triage tool": process.exit(0)
ChooseQuit ==
  /\ Prompting
  /\ triagePc' = "exited"
  /\ UNCHANGED <<disk, filePath, currentClusters, currentIndex, fileIndex,
                 fileStatuses, renameTo, unlinked>>
  /\ UNCHANGED <<engineVars, serviceVars>>

\* "Rename this file" with the name the prompt proposes, or none: nothing
\* is renamed and the file counts as processed.
RenameSameName ==
  /\ Prompting
  /\ fileStatuses' = [fileStatuses EXCEPT ![fileIndex] = "processed"]
  /\ fileIndex' = fileIndex + 1
  /\ UNCHANGED <<disk, filePath, currentClusters, currentIndex, renameTo,
                 triagePc, unlinked>>
  /\ UNCHANGED <<engineVars, serviceVars>>

\* "Rename this file" with another name: renameFile up to the end of
\* fs.access (operations.ts 26-33).  A file at newPath makes it throw.
RenameAccess ==
  /\ Prompting
  /\ \E newPath \in Paths \ {TriagedPath} :
       IF disk[newPath] # NoFile
       THEN /\ triagePc' = "error"
            /\ UNCHANGED renameTo
       ELSE /\ triagePc' = "rename"
            /\ renameTo' = newPath
  /\ UNCHANGED <<disk, filePath, currentClusters, currentIndex, fileIndex,
                 fileStatuses, unlinked>>
  /\ UNCHANGED <<engineVars, serviceVars>>

\* fs.rename(oldPath, newPath) (operations.ts 35): it fails when oldPath is
\* gone and replaces whatever newPath holds.  triageFile then updates the
\* FileItem and marks the file processed.
RenameCommit ==
  /\ triagePc = "rename"
  /\ IF disk[TriagedPath] = NoFile
     THEN /\ triagePc' = "error"
          /\ UNCHANGED <<disk, filePath, fileStatuses, fileIndex>>
     ELSE /\ disk' = [disk EXCEPT ![renameTo] = disk[TriagedPath],
                                  ![TriagedPath] = NoFile]
          /\ filePath' = [filePath EXCEPT ![TriagedFile] = renameTo]
          /\ fileStatuses' = [fileStatuses EXCEPT ![fileIndex] = "processed"]
          /\ fileIndex' = fileIndex + 1
          /\ triagePc' = "file"
  /\ renameTo' = 0
  /\ UNCHANGED <<currentClusters, currentIndex, unlinked>>
  /\ UNCHANGED <<engineVars, serviceVars>>

\* Another process creates a file while the session waits (at a prompt, or
\* between the awaits of renameFile); one such file at a time.
ExternalCreate ==
  /\ triagePc \in {"file", "rename"}
  /\ \A q \in Paths : disk[q] # External
  /\ \E p \in Paths :
       /\ disk[p] = NoFile
       /\ disk' = [disk EXCEPT ![p] = External]
  /\ UNCHANGED <<filePath, currentClusters, currentIndex, fileIndex,
                 fileStatuses, renameTo, triagePc, unlinked>>
  /\ UNCHANGED <<engineVars, serviceVars>>

\* A session in which the user deletes, skips and splits.
NextTriage ==
  \/ BeginCluster
  \/ TriageComplete
  \/ EndCluster
  \/ ChooseDelete
  \/ ChooseNext
  \/ ChooseDeleteAll
  \/ ChooseSkipCluster
  \/ ChooseSplit
  \/ ChooseQuit

SpecTriage == InitTriage /\ [][NextTriage]_vars

\* A session in which the user deletes, skips and renames while other
\* processes use the directory.
RenameLabelings == {<<0, 0, -1>>}

InitRename == \E ls \in RenameLabelings : InitSession(ls)

NextRename ==
  \/ BeginCluster
  \/ TriageComplete
  \/ EndCluster
  \/ ChooseDelete
  \/ ChooseNext
  \/ RenameSameName
  \/ RenameAccess
  \/ RenameCommit
  \/ ExternalCreate

SpecRename == InitRename /\ [][NextRename]_vars

(***************************************************************************)
(* EmbeddingCache (cache.ts)                                               *)
(***************************************************************************)
\* The clustering engine is not running.
EngineIdle ==
  /\ files = <<>>
  /\ initialOptions = SplitInitialOptions
  /\ autoOptions = SplitAutoOptions
  /\ currentOptions = SplitInitialOptions
  /\ iteration = 1
  /\ adjustments = <<>>
  /\ bestClusters = <<>>
  /\ bestScore = Int2Rat(0)
  /\ result = NoResult
  /\ trace = <<>>
  /\ console = <<>>
  /\ pc = "idle"
  /\ opts = Destructure(currentOptions)
  /\ labels = <<>>
  /\ clusters = <<>>
  /\ finalClusters = <<>>
  /\ nextClusterId = 0
  /\ ci = 0
  /\ split = NoSplit

\* The file names of the directory, the contents a file can have, and the
\* modification times.
CacheFiles == 1..2

Contents == 1..2

Mtimes == 1..2

\* Lines 101 and 183: files of 1024 * 1024 bytes and more are hashed.
HashThreshold == 1024 * 1024

Sizes == {HashThreshold - 1, HashThreshold}

\* A path fs.stat rejects.
Missing == [exists |-> FALSE]

FileStates == [exists : {TRUE}, content : Contents, mtime : Mtimes, size : Sizes]

\* hashFile: the digest of the content; different contents have different
\* digests.
hashFile(file) == <<"sha256", file.content>>

\* getFileEmbedding: the embedding the service computes from the content.
getFileEmbedding(file) == <<"embedding", file.content>>

\* Lines 107 and 190: an entry whose hash is empty.
NoHash == <<>>

\* this.cache[fileName] when the cache has no entry for the name.
NoEntry == [cached |-> FALSE]

\* Lines 267-276: the entry setCachedEmbedding stores.
NewEntry(file, embedding) ==
  [cached |-> TRUE, hash |-> hashFile(file), embedding |-> embedding,
   lastModified |-> file.mtime, size |-> file.size,
   isValidated |-> TRUE, isStale |-> FALSE]

\* Lines 54-57: initialize marks every loaded entry as needing validation.
Loaded(entry) == [entry EXCEPT !.isValidated = FALSE, !.isStale = FALSE]

Fresh(entry) == [entry EXCEPT !.isValidated = TRUE, !.isStale = FALSE]

Stale(entry) == [entry EXCEPT !.isValidated = TRUE, !.isStale = TRUE]

\* Lines 84-87, 96-99, 165-168, 179-182: the stored stats equal fs.stat's.
StatsMatch(entry, file) ==
  entry.lastModified = file.mtime /\ entry.size = file.size

\* Lines 79-136 and 160-225, the same decision: the entry after its
\* validation against the file; hashOk says whether hashFile resolves.
Validated(entry, file, fast, hashOk) ==
  IF ~file.exists THEN Stale(entry)
  ELSE IF fast
    THEN IF StatsMatch(entry, file) THEN Fresh(entry) ELSE Stale(entry)
  ELSE IF ~StatsMatch(entry, file) THEN Stale(entry)
  ELSE IF file.size < HashThreshold THEN Fresh(entry)
  ELSE IF entry.hash = NoHash THEN Fresh(entry)
  ELSE IF ~hashOk THEN Fresh(entry)
  ELSE IF entry.hash = hashFile(file) THEN Fresh(entry)
  ELSE Stale(entry)

\* Lines 77 and 248: what batchValidateCacheEntries leaves of an entry, and
\* whether getCachedEmbeddings then puts it in its results.
BatchValidated(entry, file, fast, hashOk) ==
  IF ~entry.cached \/ entry.isValidated THEN entry
  ELSE Validated(entry, file, fast, hashOk)

Usable(entry) == entry.cached /\ entry.isValidated /\ ~entry.isStale

\* The results map of a read that found nothing.
NoResults == <<>>

\* The constructor and initialize: .triage.json holds, for some of the
\* files, the entry an earlier run stored; the files may have changed since.
InitCache ==
  /\ fastMode \in BOOLEAN
  /\ \E then \in [CacheFiles -> FileStates], has \in [CacheFiles -> BOOLEAN] :
       /\ \A f \in CacheFiles : then[f].mtime = 1
       /\ cache = [f \in CacheFiles |->
                     IF has[f]
                       THEN Loaded(NewEntry(then[f], getFileEmbedding(then[f])))
                       ELSE NoEntry]
       /\ fsFiles \in [CacheFiles -> FileStates \cup {Missing}]
       /\ \A f \in CacheFiles :
            fsFiles[f].exists /\ fsFiles[f].mtime = 1 => fsFiles[f] = then[f]
  /\ served = NoResults
  /\ EngineIdle
  /\ TriageIdle
  /\ EmbedIdle

\* getCachedEmbedding(filePath), lines 145-230.
GetCachedEmbedding ==
  \E f \in CacheFiles, hashOk \in BOOLEAN :
    \E entry \in {cache[f]} :
      /\ IF ~entry.cached
           THEN /\ served' = NoResults
                /\ cache' = cache
           ELSE IF entry.isValidated
             THEN /\ served' = IF entry.isStale THEN NoResults
                                ELSE (f :> entry.embedding)
                  /\ cache' = cache
             ELSE \E checked \in {Validated(entry, fsFiles[f], fastMode, hashOk)} :
                    /\ cache' = [cache EXCEPT ![f] = checked]
                    /\ served' = IF checked.isStale THEN NoResults
                                  ELSE (f :> checked.embedding)
      /\ UNCHANGED <<fastMode, fsFiles>>
      /\ UNCHANGED <<engineVars, triageVars, embedVars>>

\* getCachedEmbeddings(filePaths), lines 235-254.
GetCachedEmbeddings ==
  \E paths \in (SUBSET CacheFiles) \ {{}}, hashOk \in [CacheFiles -> BOOLEAN] :
    \E checked \in {[f \in CacheFiles |->
                      IF f \in paths
                        THEN BatchValidated(cache[f], fsFiles[f], fastMode, hashOk[f])
                        ELSE cache[f]]} :
      /\ cache' = checked
      /\ served' = [f \in {g \in paths : Usable(checked[g])} |->
                      checked[f].embedding]
      /\ UNCHANGED <<fastMode, fsFiles>>
      /\ UNCHANGED <<engineVars, triageVars, embedVars>>

\* setCachedEmbedding(filePath, embedding, strategy), lines 256-282, called
\* with the embedding getFileEmbedding has just computed (index.ts 77-80);
\* when fs.stat or hashFile rejects, nothing is stored.
SetCachedEmbedding ==
  \E f \in CacheFiles, hashOk \in BOOLEAN :
    /\ fsFiles[f].exists
    /\ cache' = IF hashOk
                  THEN [cache EXCEPT
                          ![f] = NewEntry(fsFiles[f], getFileEmbedding(fsFiles[f]))]
                  ELSE cache
    /\ UNCHANGED <<fastMode, fsFiles, served>>
    /\ UNCHANGED <<engineVars, triageVars, embedVars>>

\* cleanupStaleEntries, lines 287-299.
CleanupStaleEntries ==
  /\ \E f \in CacheFiles : cache[f].cached /\ cache[f].isStale
  /\ cache' = [f \in CacheFiles |->
                 IF cache[f].cached /\ cache[f].isStale THEN NoEntry ELSE cache[f]]
  /\ UNCHANGED <<fastMode, fsFiles, served>>
  /\ UNCHANGED <<engineVars, triageVars, embedVars>>

\* Another program writes a file of the directory: the content changes,
\* the size may, and the modification time does not go back.
WriteFile ==
  \E f \in CacheFiles, file \in FileStates :
    /\ fsFiles[f].exists
    /\ file.content # fsFiles[f].content
    /\ file.mtime >= fsFiles[f].mtime
    /\ fsFiles' = [fsFiles EXCEPT ![f] = file]
    /\ UNCHANGED <<cache, fastMode, served>>
    /\ UNCHANGED <<engineVars, triageVars, embedVars>>

\* Another program removes a file of the directory.
RemoveFile ==
  \E f \in CacheFiles :
    /\ fsFiles[f].exists
    /\ fsFiles' = [fsFiles EXCEPT ![f] = Missing]
    /\ UNCHANGED <<cache, fastMode, served>>
    /\ UNCHANGED <<engineVars, triageVars, embedVars>>

NextCache ==
  \/ GetCachedEmbedding
  \/ GetCachedEmbeddings
  \/ SetCachedEmbedding
  \/ CleanupStaleEntries
  \/ WriteFile
  \/ RemoveFile

SpecCache == InitCache /\ [][NextCache]_vars

(***************************************************************************)
(* EmbeddingService.getFileEmbeddings                                      *)
(***************************************************************************)
\* The paths of the directory and what getFileEmbedding does for a path:
\* it resolves from the cache, resolves with a new embedding, or rejects.
EmbedPaths == 1..MaxPaths

Outcomes == {"cached", "embedded", "rejects"}

\* Line 959: pLimit(100).
ConcurrencyLimit == 100

\* The sequences of distinct paths.
PathLists ==
  UNION {{l \in [1..n -> EmbedPaths] : \A i, j \in 1..n : i # j => l[i] # l[j]} :
           n \in 0..MaxPaths}

\* The number of tasks the limiter has started and that have not settled.
activeCount == Cardinality({i \in 1..Len(promises) : promises[i].state = "running"})

\* The caller's onProgress (processDirectory): it sets the spinner's text
\* and does not throw.
onProgress(current, total) ==
  [throws |-> FALSE, text |-> <<"Getting embeddings for", current, total>>]

\* Lines 976-981: the entry of a file whose embedding resolved.
Embedded(path, outcome) ==
  [filePath |-> path, embedding |-> <<"embedding", path>>,
   strategy |-> "content", fromCache |-> outcome = "cached"]

\* Lines 990-998: the entry of a file whose embedding failed.
Failed(path) ==
  [filePath |-> path, embedding |-> <<>>, strategy |-> "error",
   error |-> <<"error", path>>, fromCache |-> FALSE]

\* Lines 966-1000: how the limited task of a path settles when
\* getFileEmbedding has the given outcome and completedCount is count.  A
\* throw in the try block, the callback's included, goes to the catch
\* block; a throw in the catch block rejects the task.
Settled(path, outcome, count, total) ==
  IF outcome # "rejects" /\ ~onProgress(count + 1, total).throws
    THEN [state |-> "fulfilled", value |-> Embedded(path, outcome),
          completedCount |-> count + 1,
          text |-> onProgress(count + 1, total).text]
  ELSE LET caught == IF outcome # "rejects" THEN count + 2 ELSE count + 1 IN
    IF onProgress(caught, total).throws
      THEN [state |-> "rejected", value |-> <<>>, completedCount |-> caught,
            text |-> spinnerText]
      ELSE [state |-> "fulfilled", value |-> Failed(path),
            completedCount |-> caught, text |-> onProgress(caught, total).text]

\* The values in the order the tasks completed.
GatheredAsCompleted == [k \in 1..Len(completions) |-> promises[completions[k]].value]

\* Lines 1004-1005: Promise.all gives the values by position in promises.
Gathered == [i \in 1..Len(promises) |-> promises[i].value]

\* getFileEmbeddings(filePaths, onProgress), lines 959-1001: every path is
\* handed to the limiter.
InitEmbed ==
  /\ filePaths \in PathLists
  /\ embedOutcome \in [EmbedPaths -> Outcomes]
  /\ promises = [i \in 1..Len(filePaths) |-> [state |-> "queued"]]
  /\ completedCount = 0
  /\ spinnerText = <<"Getting embeddings for", 0, Len(filePaths)>>
  /\ completions = <<>>
  /\ results = [state |-> "pending"]
  /\ EngineIdle
  /\ TriageIdle
  /\ CacheIdle

\* The limiter starts the next queued task while fewer than 100 run.
StartTask ==
  \E i \in 1..Len(promises) :
    /\ promises[i].state = "queued"
    /\ \A j \in 1..(i - 1) : promises[j].state # "queued"
    /\ activeCount < ConcurrencyLimit
    /\ promises' = [promises EXCEPT ![i] = [state |-> "running"]]
    /\ UNCHANGED <<filePaths, embedOutcome, completedCount, spinnerText,
                   completions, results>>
    /\ UNCHANGED <<engineVars, triageVars, cacheVars>>

\* Lines 966-1000: getFileEmbedding settles for one of the running tasks,
\* whichever, and the task runs to its return.
SettleTask ==
  \E i \in 1..Len(promises) :
    /\ promises[i].state = "running"
    /\ \E s \in {Settled(filePaths[i], embedOutcome[filePaths[i]],
                         completedCount, Len(filePaths))} :
         /\ promises' = [promises EXCEPT
                           ![i] = [state |-> s.state, value |-> s.value]]
         /\ completedCount' = s.completedCount
         /\ spinnerText' = s.text
    /\ completions' = Append(completions, i)
    /\ UNCHANGED <<filePaths, embedOutcome, results>>
    /\ UNCHANGED <<engineVars, triageVars, cacheVars>>

\* Lines 1004-1005: Promise.all settles, and getFileEmbeddings with it: it
\* rejects when a task has rejected, resolves when all are fulfilled.
PromiseAll ==
  /\ results.state = "pending"
  /\ \/ \E i \in 1..Len(promises) : promises[i].state = "rejected"
     \/ \A i \in 1..Len(promises) : promises[i].state = "fulfilled"
  /\ results' = IF \E i \in 1..Len(promises) : promises[i].state = "rejected"
                  THEN [state |-> "rejected"]
                  ELSE [state |-> "resolved", value |-> Gathered]
  /\ UNCHANGED <<filePaths, embedOutcome, promises, completedCount, spinnerText,
                 completions>>
  /\ UNCHANGED <<engineVars, triageVars, cacheVars>>

NextEmbed ==
  \/ StartTask
  \/ SettleTask
  \/ PromiseAll

SpecEmbed == InitEmbed /\ [][NextEmbed]_vars

(***************************************************************************)
(* Properties of clusterFiles (checked under SpecCluster)                  *)
(***************************************************************************)
\* The places (cluster, position) of file f in the partition cs.
Places(cs, f) ==
  {<<k, p>> \in (1..Len(cs)) \X (1..MaxFiles + 1) :
     p <= Len(cs[k].files) /\ cs[k].files[p] = f}

\* clusterFiles went past the short-circuit and has returned.
ClusteredByLabels == pc = "clustered" /\ Len(files) >= opts.minClusterSize

\* C1: for files.length >= minClusterSize and any labels, the partition
\* clusterFiles returns holds every input file in exactly one cluster.
C1_PartitionComplete ==
  ClusteredByLabels =>
    \A f \in 1..Len(files) : Cardinality(Places(finalClusters, f)) = 1

\* C2: for files.length >= minClusterSize and maxClusterSize >= 1, every
\* cluster clusterFiles returns, the noise cluster and the sub-clusters of a
\* split included, has at most maxClusterSize files; so has every sub-cluster
\* while a cluster is being split.
C2_SizeBound ==
  /\ (ClusteredByLabels /\ opts.maxClusterSize >= 1) =>
       \A k \in 1..Len(finalClusters) :
         Len(finalClusters[k].files) <= opts.maxClusterSize
  /\ pc = "distribute" =>
       \A k \in 1..Len(split.subClusterFiles) :
         Len(split.subClusterFiles[k]) <= opts.maxClusterSize

\* Witness of C2: clusterFiles has returned after splitting an oversized
\* noise cluster and an oversized cluster 0.
C2_Witness ==
  /\ ClusteredByLabels
  /\ \E a, b \in 1..Len(clusters) :
       /\ clusters[a].id = -1
       /\ clusters[b].id = 0
       /\ Len(clusters[a].files) > opts.maxClusterSize
       /\ Len(clusters[b].files) > opts.maxClusterSize

\* The member the replace branch overwrites.
Displaced ==
  split.subClusterFiles[Replacement.bestFit][Replacement.leastSimilarIndex]

\* File f is in a sub-cluster or still waits in the assignment pool (at or
\* after the position of the distribution loop, and not a seed).
InSubClusterOrPool(s, f) ==
  \/ \E k \in 1..Len(s.subClusterFiles) :
       \E p \in 1..Len(s.subClusterFiles[k]) : s.subClusterFiles[k][p] = f
  \/ \E q \in 1..Len(s.files) :
       q >= s.i /\ q \notin s.usedFiles /\ s.files[q] = f

\* C8: when a member replaces the least similar member of a full
\* sub-cluster, the replaced member is back in the assignment pool or in a
\* sub-cluster after the step, and no sub-cluster exceeds maxClusterSize.
C8_ReplacedMemberKept ==
  [][DistributeReplace =>
       LET displaced == Displaced
       IN /\ InSubClusterOrPool(split', displaced)
          /\ \A k \in 1..Len(split'.subClusterFiles) :
               Len(split'.subClusterFiles[k]) <= opts.maxClusterSize]_vars

(***************************************************************************)
(* Properties of autoClusterFiles (checked under Spec)                     *)
(***************************************************************************)
Iterations == 1..Len(trace)

\* The score of iteration i is the maximum of the scores so far, and no
\* earlier iteration has it.
EarliestMaximum(i) ==
  /\ ~IsNaN(trace[i].score)
  /\ \A j \in Iterations : ~RGreater(trace[j].score, trace[i].score)
  /\ \A j \in 1..(i - 1) : ~REq(trace[j].score, trace[i].score)

\* C3: the stored best partition, and the partition returned, is the one of
\* the earliest iteration whose score is the maximum over the iterations
\* run; a later iteration of equal score does not replace it.
C3_EarliestBestKept ==
  \A i \in Iterations :
    EarliestMaximum(i) =>
      /\ bestClusters = trace[i].clusters
      /\ REq(bestScore, trace[i].score)
      /\ result.returned => result.clusters = trace[i].clusters

\* Witness of C3: a run has returned in which a later iteration reached the
\* maximum score of an earlier one with a different partition.
C3_Witness ==
  /\ result.returned
  /\ \E i, j \in Iterations :
       /\ i < j
       /\ EarliestMaximum(i)
       /\ REq(trace[i].score, trace[j].score)
       /\ trace[i].clusters # trace[j].clusters
       /\ result.clusters = trace[i].clusters

\* score > 0.8, as the claims state it.
Above80(score) == ~IsNaN(score) /\ score.n * 100 > 80 * score.d

\* C4: an iteration whose score is above 0.8 is the last one: the tuner is
\* not called after it, no iteration follows, and its partition is the best
\* one and the one returned.
C4_GoodEnoughStops ==
  \A i \in Iterations :
    Above80(trace[i].score) =>
      /\ i = Len(trace)
      /\ iteration = i
      /\ ~trace[i].tunerCalled
      /\ Len(adjustments) = i - 1
      /\ pc \in {"return", "done"}
      /\ bestClusters = trace[i].clusters
      /\ result.returned => result.clusters = trace[i].clusters

\* Witness of C4: a run has returned after an iteration above 0.8 that was
\* not the last one allowed, and that followed an adjustment.
C4_Witness ==
  /\ result.returned
  /\ Len(trace) >= 2
  /\ Len(trace) < autoOptions.maxIterations
  /\ Above80(trace[Len(trace)].score)

\* C5: when the tuner returns the parameters it was given at iteration i,
\* the loop stops at i and logs no adjustment; when it returns other
\* parameters, the adjustment is logged and iteration i + 1 runs with
\* exactly the returned parameters.
C5_ConvergenceStops ==
  \A i \in Iterations :
    trace[i].tunerCalled =>
      IF trace[i].proposed = trace[i].current
      THEN /\ i = Len(trace)
           /\ iteration = i
           /\ Len(adjustments) = i - 1
           /\ pc \in {"return", "done"}
      ELSE /\ Len(adjustments) >= i
           /\ adjustments[i].iteration = i
           /\ i + 1 <= autoOptions.maxIterations
           /\ IF i < Len(trace)
              THEN /\ trace[i + 1].current = trace[i].proposed
                   /\ trace[i + 1].options = Destructure(trace[i].proposed)
              ELSE /\ iteration = i + 1
                   /\ currentOptions = trace[i].proposed
                   /\ pc \in {"iterate", "post", "distribute", "clustered"}
                   /\ pc # "iterate" => opts = Destructure(trace[i].proposed)

\* Witness of C5: a run has returned that adjusted the parameters after
\* iteration 1 and stopped at a later iteration whose proposal changed nothing.
C5_Witness ==
  /\ result.returned
  /\ Len(trace) >= 2
  /\ trace[1].tunerCalled
  /\ trace[1].proposed # trace[1].current
  /\ trace[2].current = trace[1].proposed
  /\ trace[Len(trace)].tunerCalled
  /\ trace[Len(trace)].proposed = trace[Len(trace)].current

C7_ShortCircuitTerminal ==
  \A i \in Iterations :
    Len(files) < trace[i].options.minClusterSize =>
      /\ i = Len(trace)
      /\ iteration = i
      /\ Len(adjustments) < i

\* The partition cs is one cluster that holds all n files.
SingleCluster(cs, n) == Len(cs) = 1 /\ Len(cs[1].files) = n

\* The partition cs is n clusters of one file each.
AllSingletons(cs, n) ==
  Len(cs) = n /\ \A k \in 1..Len(cs) : Len(cs[k].files) = 1

C10_WeightsRenormalized ==
  \A i \in Iterations :
    LET analysis == analyzeClusteringResults(trace[i].clusters)
        distribution == RMul[DistributionScore(analysis), DistributionWeight]
        size == RMul[SizeScore(analysis, Len(files)), SizeWeight]
        count == RMul[CountScore(analysis, autoOptions.targetClusterCount),
                      CountWeight]
    IN ~IsNaN(trace[i].score) =>
         IF autoOptions.targetClusterCount # 0
         THEN REq(trace[i].score, RAdd[count, RAdd[distribution, size]])
         ELSE REq(trace[i].score, RScale[RAdd[distribution, size], 100, 70])

\* C11: autoClusterFiles on an empty file list fails before any clustering
\* attempt: no partition is computed, nothing is scored and no result is
\* returned.
C11_EmptyInputRejected ==
  Len(files) = 0 =>
    /\ finalClusters = <<>>
    /\ trace = <<>>
    /\ ~result.returned

\* C12: a partition clusterFiles returns past the short-circuit was built
\* from one label per file: a label array of another length ends in an
\* error, never in a partition.
C12_MalformedLabelsRejected ==
  ClusteredByLabels => Len(labels) = Len(files)

\* bestScore is 0 or the score of an iteration, and no iteration scored
\* higher.
IsMaximumSoFar(best) ==
  /\ \/ best = Int2Rat(0)
     \/ \E i \in Iterations : trace[i].score = best
  /\ ~RLess(best, Int2Rat(0))
  /\ \A i \in Iterations : ~RGreater(trace[i].score, best)

\* C13: bestScore never decreases, and after each iteration it is the
\* maximum of its initial value 0 and the scores of the iterations run.
C13_BestScoreMonotone ==
  /\ [](IsMaximumSoFar(bestScore))
  /\ [][~RLess(bestScore', bestScore)]_vars

\* Witness of C13: a run has returned in which a later iteration scored
\* lower than an earlier one.
C13_Witness ==
  /\ result.returned
  /\ \E i, j \in Iterations :
       i < j /\ RLess(trace[j].score, trace[i].score) /\ REq(bestScore, trace[i].score)

\* C14: no two clusters of a partition clusterFiles returns share an id.
C14_UniqueClusterIds ==
  pc = "clustered" =>
    \A a, b \in 1..Len(finalClusters) :
      a # b => finalClusters[a].id # finalClusters[b].id

\* Witness of C14: clusterFiles has returned a partition that holds the
\* noise cluster -1 unsplit next to the sub-clusters of a split cluster.
C14_Witness ==
  /\ ClusteredByLabels
  /\ Len(finalClusters) >= 3
  /\ \E a, b \in 1..Len(clusters) :
       /\ clusters[a].id = -1
       /\ Len(clusters[a].files) <= opts.maxClusterSize
       /\ Len(clusters[b].files) > opts.maxClusterSize
  /\ \E k \in 1..Len(finalClusters) : finalClusters[k].id = -1

\* Position q of the cluster fs is among its n members closest to the
\* centroid: fewer than n members are strictly closer.
AmongClosest(fs, q, n) ==
  LET sims == CentroidSimilarities(fs)
  IN Cardinality({j \in 1..Len(fs) : DistanceLess(sims, j, q)}) < n

\* The seeds of a split that has just begun: ceil(M / maxClusterSize)
\* sub-clusters of one member each, all among the closest to the centroid.
SeededByClosest(s, maxClusterSize) ==
  /\ s.numSubClusters = NumSubClusters(Len(s.files), maxClusterSize)
  /\ Len(s.subClusterFiles) = s.numSubClusters
  /\ Cardinality(s.usedFiles) = s.numSubClusters
  /\ \A k \in 1..s.numSubClusters :
       /\ Len(s.subClusterFiles[k]) = 1
       /\ \E q \in s.usedFiles :
            /\ s.files[q] = s.subClusterFiles[k][1]
            /\ AmongClosest(s.files, q, s.numSubClusters)

\* C15: splitting a cluster of M > maxClusterSize files seeds exactly
\* ceil(M / maxClusterSize) sub-clusters with the members closest to the
\* centroid, and returns exactly that many sub-clusters, none empty.
C15_SplitCount ==
  [][/\ SplitBegin => SeededByClosest(split', opts.maxClusterSize)
     /\ SplitEnd =>
          /\ Len(finalClusters') = Len(finalClusters) + split.numSubClusters
          /\ \A k \in 1..Len(finalClusters') : Len(finalClusters'[k].files) >= 1]_vars

\* ClusteringParameters: minClusterSize >= 1 and maxClusterSize >= minClusterSize.
ValidParameters(o) ==
  /\ o.minClusterSize >= 1
  /\ o.maxClusterSize >= o.minClusterSize

\* C16: when the initial parameters are valid, the parameters every
\* iteration of autoClusterFiles ran with and the parameters the next
\* iteration would run with are valid: minClusterSize >= 1 and
\* maxClusterSize >= minClusterSize.
C16_ParametersStayValid ==
  ValidParameters(Defaulted(initialOptions)) =>
    /\ ValidParameters(currentOptions)
    /\ \A i \in Iterations : ValidParameters(trace[i].current)

\* One of the rules that shrink maxClusterSize (the giant-cluster rule, the
\* large-cluster-glut rule, the emergency rule) fires in the tuner call of
\* iteration i.
ShrinkingRuleFires(i) ==
  LET analysis == analyzeClusteringResults(trace[i].clusters)
      pct == autoOptions.maxClusterSizePercent
      target == autoOptions.targetClusterCount
      rule4sees ==
        TargetRatioRule(
          SmallClusterRule(
            GiantClusterRule(trace[i].current, analysis, Len(files), pct),
            analysis),
          analysis, Len(files), target)
  IN /\ trace[i].tunerCalled
     /\ \/ GiantCluster(analysis, Len(files), pct)
        \/ LargeClusterGlut(rule4sees, analysis, Len(files))
        \/ Emergency(analysis, Len(files))

\* C17: when the giant-cluster rule, the large-cluster-glut rule or the
\* emergency rule fires in a call of adjustClusteringParameters, the
\* proposed maxClusterSize is not larger than the current maxClusterSize.
C17_ShrinkingRulesNeverRaise ==
  \A i \in Iterations :
    ShrinkingRuleFires(i) =>
      trace[i].proposed.maxClusterSize <= trace[i].current.maxClusterSize

\* The analysis the tuner call of iteration i is given.
AnalysisOf(i) == analyzeClusteringResults(trace[i].clusters)

\* The options the target-ratio rule receives in the tuner call of
\* iteration i, and the options it yields.
TargetRuleReceives(i) ==
  SmallClusterRule(
    GiantClusterRule(trace[i].current, AnalysisOf(i), Len(files),
                     autoOptions.maxClusterSizePercent),
    AnalysisOf(i))

TargetRuleYields(i) ==
  TargetRatioRule(TargetRuleReceives(i), AnalysisOf(i), Len(files),
                  autoOptions.targetClusterCount)

\* C18: with targetClusterCount given, the target-ratio rule yields a
\* similarityThreshold not lower than the one it received when the partition
\* is over target, and not higher than the one it received when the
\* partition is under target.
C18_TargetRuleDirection ==
  \A i \in Iterations :
    trace[i].tunerCalled =>
      /\ OverTarget(AnalysisOf(i), Len(files), autoOptions.targetClusterCount) =>
            TargetRuleYields(i).similarityThreshold
              >= TargetRuleReceives(i).similarityThreshold
      /\ UnderTarget(AnalysisOf(i), Len(files), autoOptions.targetClusterCount) =>
            TargetRuleYields(i).similarityThreshold
              <= TargetRuleReceives(i).similarityThreshold

\* The emergency correction of the current parameters of iteration i: what
\* rule 6 makes of them when no earlier rule has touched them.
EmergencyCorrection(i) ==
  EmergencyRule(trace[i].current, AnalysisOf(i), Len(files))

\* C19: when the largest cluster exceeds 10% of totalFiles, the
\* maxClusterSize and the similarityThreshold adjustClusteringParameters
\* returns are the emergency correction of the current parameters, whatever
\* rules 1 to 4 did earlier in the call.
C19_EmergencyOverrides ==
  \A i \in Iterations :
    (trace[i].tunerCalled /\ Emergency(AnalysisOf(i), Len(files))) =>
      /\ trace[i].proposed.maxClusterSize = EmergencyCorrection(i).maxClusterSize
      /\ trace[i].proposed.similarityThreshold
           = EmergencyCorrection(i).similarityThreshold

ParameterNames == {"min-cluster-size", "similarity-threshold", "max-cluster-size"}

ParameterValue(o, name) ==
  CASE name = "min-cluster-size" -> o.minClusterSize
    [] name = "similarity-threshold" -> o.similarityThreshold
    [] name = "max-cluster-size" -> o.maxClusterSize

\* The value the first k entries of the change log leave parameter name
\* with, starting from the parameters the caller supplied (with the
\* defaults for the fields left out).
RECURSIVE Replayed(_, _, _)
Replayed(log, k, name) ==
  IF k = 0 THEN ParameterValue(Defaulted(initialOptions), name)
  ELSE LET cs == {j \in 1..Len(log[k].changes) : log[k].changes[j].name = name}
       IN IF cs = {} THEN Replayed(log, k - 1, name)
          ELSE log[k].changes[CHOOSE j \in cs : TRUE].new

\* C20: in the result of autoClusterFiles, finalOptions is the parameter
\* set in effect at termination, and the entries of adjustments, one per
\* applied change and in iteration order, account for every difference
\* between the initial parameters of the caller and finalOptions.
C20_ChangeLogComplete ==
  result.returned =>
    /\ result.finalOptions = currentOptions
    /\ \A k \in 1..Len(result.adjustments) :
         /\ result.adjustments[k].changes # <<>>
         /\ k > 1 => result.adjustments[k - 1].iteration
                       < result.adjustments[k].iteration
    /\ \A name \in ParameterNames :
         Replayed(result.adjustments, Len(result.adjustments), name)
           = ParameterValue(result.finalOptions, name)

\* C21: the cancellation signal is checked at the top of each iteration:
\* when it is raised there, the density clusterer is not invoked, no further
\* iteration starts and the best partition found so far is left as it is.
C21_CancelStopsRun ==
  [][(autoOptions.cancelled /\ pc = "iterate" /\ LoopCondition) =>
       /\ pc' \notin {"post", "clustered"}
       /\ bestClusters' = bestClusters]_vars

\* The partitions clusterFiles returned in the iterations of this run.
Partitions == [i \in 1..Len(trace) |-> trace[i].clusters]

QuietResult ==
  QuietLoop(autoOptions, Len(files), Partitions, 1,
            HardCapped(Defaulted(initialOptions), Len(files),
                       autoOptions.maxClusterSizePercent),
            <<>>, Int2Rat(0), <<>>)

\* C22: the clusters, iterations, finalOptions and adjustments a run of
\* autoClusterFiles returns are what the files, the initial parameters, the
\* other options and the partitions of its iterations determine without
\* enableVerbose: a verbose and a quiet run on the same inputs and the same
\* clustering outcomes return the same.
C22_VerboseObservational ==
  result.returned =>
    /\ result.clusters = QuietResult.clusters
    /\ result.iterations = QuietResult.iterations
    /\ result.finalOptions = QuietResult.finalOptions
    /\ result.adjustments = QuietResult.adjustments

C22_Witness ==
  /\ result.returned
  /\ autoOptions.enableVerbose
  /\ Len(trace) >= 2
  /\ Len(console) >= 4
  /\ result.adjustments # <<>>

(***************************************************************************)
(* Properties of the interactive triage (checked under SpecTriage and      *)
(* SpecRename)                                                             *)
(***************************************************************************)
\* The paths of the files of the triaged cluster from position i on.
PathsFrom(i) ==
  {filePath[TriagedCluster.files[k]] : k \in i..Len(TriagedCluster.files)}

\* C23: "Delete this file and all remaining in cluster" at file index i
\* deletes file i and every file of the cluster after it, no file before it
\* and no file of another cluster, and moves on to the next cluster.
C23_DeleteAllRemaining ==
  [][ChooseDeleteAll =>
       /\ \A p \in Paths :
            disk'[p] = IF p \in PathsFrom(fileIndex) THEN NoFile ELSE disk[p]
       /\ currentIndex' = currentIndex + 1
       /\ triagePc' = "cluster"]_vars

\* C25: renameFile never replaces an existing file: when a file is at
\* newPath as the rename takes effect, the call fails and both files are
\* left as they are; a rename happens only when newPath holds no file.
C25_RenameNeverReplaces ==
  [][/\ (RenameAccess /\ triagePc' = "error") => disk' = disk
     /\ (RenameCommit /\ disk[renameTo] # NoFile) =>
          (triagePc' = "error" /\ disk' = disk)]_vars

\* C26: after a cluster is replaced by its sub-clusters, the clusters of
\* the working list have pairwise distinct ids.
C26_DistinctIdsAfterSplit ==
  \A a, b \in 1..Len(currentClusters) :
    a # b => currentClusters[a].id # currentClusters[b].id

\* A file the session has deleted is at the prompt again.
DeletedFilePresented == Prompting /\ TriagedFile \in unlinked

\* C28: a file that has been deleted is not presented for triage again,
\* and deleteFile is not invoked on it a second time (an invocation that
\* fails: the file is gone), split or no split.
C28_DeletedNeverPresented ==
  /\ [](~DeletedFilePresented)
  /\ [][(ChooseDelete \/ ChooseDeleteAll) =>
          (TriagedFile \notin unlinked /\ triagePc' # "error")]_vars

(***************************************************************************)
(* Properties of EmbeddingCache (checked under SpecCache)                  *)
(***************************************************************************)
\* A cache read.
CacheRead == GetCachedEmbedding \/ GetCachedEmbeddings

\* C24: in accurate mode, a cache read returns the stored embedding of a
\* file only if the file's current content hash equals the stored hash, so
\* the embedding of a file whose content has changed is never returned.
C24_AccurateServesOnlyHashValid ==
  [][(~fastMode /\ CacheRead) =>
       \A f \in DOMAIN served' :
         /\ fsFiles[f].exists
         /\ cache'[f].hash = hashFile(fsFiles[f])
         /\ served'[f] = getFileEmbedding(fsFiles[f])]_vars

(***************************************************************************)
(* Properties of getFileEmbeddings (checked under SpecEmbed)               *)
(***************************************************************************)
\* What the entry for the path at position i must be: the path's own
\* embedding when getFileEmbedding resolved for it, and an error with an
\* empty embedding when it rejected.
EntryFor(entry, i) ==
  /\ entry.filePath = filePaths[i]
  /\ IF embedOutcome[filePaths[i]] = "rejects"
       THEN /\ "error" \in DOMAIN entry
            /\ entry.embedding = <<>>
       ELSE /\ "error" \notin DOMAIN entry
            /\ entry.embedding = <<"embedding", filePaths[i]>>
            /\ entry.fromCache = (embedOutcome[filePaths[i]] = "cached")

\* C27: getFileEmbeddings never rejects, and it resolves with one entry
\* per input path, in input order, whatever the order of completion; a
\* failed file has an error entry and the other entries are not affected.
C27_OneResultPerPathInOrder ==
  /\ results.state # "rejected"
  /\ results.state = "resolved" =>
       /\ Len(results.value) = Len(filePaths)
       /\ \A i \in 1..Len(filePaths) : EntryFor(results.value[i], i)

\* A call of three paths that resolved after the tasks completed out of
\* input order, one file failing and one succeeding.
C27_Witness ==
  /\ results.state = "resolved"
  /\ Len(filePaths) = MaxPaths
  /\ completions[1] # 1
  /\ \E i, j \in 1..Len(filePaths) :
       /\ embedOutcome[filePaths[i]] = "rejects"
       /\ embedOutcome[filePaths[j]] = "embedded"
       /\ "error" \in DOMAIN results.value[i]

(***************************************************************************)
(* Further properties of clusterFiles and autoClusterFiles                 *)
(***************************************************************************)
\* splitLargeCluster is about to assign a non-seed member.
AssigningMember == Distributing /\ split.i \notin split.usedFiles

\* C29: whenever splitLargeCluster is about to assign a non-seed member,
\* some sub-cluster has room and the member goes to a sub-cluster that has
\* room: the replace-least-similar branch is not taken.
C29_ReplaceBranchNeverTaken ==
  AssigningMember =>
    /\ \E j \in 1..split.numSubClusters :
         HasRoom(split.subClusterFiles[j], opts.maxClusterSize)
    /\ ~TakesElseBranch

\* C30: the clusters autoClusterFiles returns are those an iteration
\* produced by clustering with the returned finalOptions; when there are
\* at least finalOptions.minClusterSize files, none of them has more than
\* finalOptions.maxClusterSize files.
C30_ReturnedClusteredWithFinalOptions ==
  (result.returned /\ Iterations # {}) =>
    /\ \E i \in Iterations :
         /\ trace[i].current = result.finalOptions
         /\ trace[i].clusters = result.clusters
    /\ Len(files) >= result.finalOptions.minClusterSize =>
         \A k \in 1..Len(result.clusters) :
           Len(result.clusters[k].files) <= result.finalOptions.maxClusterSize

=============================================================================
